---------------------------- MODULE Spec2Model ----------------------------
(***************************************************************************)
(* ThoughtLog: entry orchestration over an idempotency ledger, an issue    *)
(* tracker and a deferred work queue.                                      *)
(*                                                                         *)
(* The model follows ThoughtLogService.createEntry await by await: every   *)
(* awaited collaborator call is one step of an invocation, so concurrent   *)
(* invocations interleave exactly where the event loop (or two Lambda      *)
(* instances) can interleave them.  Strings are sequences of one-character *)
(* strings, so trimming, splitting and formatting are computed.            *)
(***************************************************************************)
EXTENDS Integers, Sequences, FiniteSets, TLC

(***************************************************************************)
(* Bounds of the model.                                                    *)
(***************************************************************************)
NumInv == 2      \* createEntry invocations in one run
MaxTicks == 1    \* clock advances in one run
NumLog == 2      \* getLog / updateLog invocations in one run
NumRef == 2      \* refineComment invocations in one run
MaxExpire == 1   \* ledger records purged by the store's TTL in one run

(***************************************************************************)
(* Program constants.                                                      *)
(***************************************************************************)
JST_OFFSET_SEC == 32400      \* JST_OFFSET_MS = 9 * 60 * 60 * 1000, in seconds
DefaultTtlDays == 14         \* ttlDays: number = 14
SecondsPerDay == 86400       \* 24 * 60 * 60
MaxErrorLen == 900           \* String(errMsg).slice(0, 900)

\* An optional value (a field that may be undefined or null) is a tuple: empty
\* when absent, holding the value when present.
None == <<>>
Some(v) == <<v>>

(***************************************************************************)
(* Strings.                                                                *)
(***************************************************************************)
\* A string is a tuple of one-character strings.
IsSpace(c) == c \in {" ", "\t", "\n"}

RECURSIVE TrimStart(_)
TrimStart(s) ==
    IF s = <<>> THEN <<>>
    ELSE IF IsSpace(Head(s)) THEN TrimStart(Tail(s)) ELSE s

RECURSIVE TrimEnd(_)
TrimEnd(s) ==
    IF s = <<>> THEN <<>>
    ELSE IF IsSpace(s[Len(s)]) THEN TrimEnd(SubSeq(s, 1, Len(s) - 1)) ELSE s

\* String.prototype.trim
Trim(s) == TrimEnd(TrimStart(s))

DigitChar == <<"0", "1", "2", "3", "4", "5", "6", "7", "8", "9">>

RECURSIVE ToDec(_)
\* String(n) for a natural number n
ToDec(n) ==
    IF n < 10 THEN <<DigitChar[n + 1]>>
    ELSE ToDec(n \div 10) \o <<DigitChar[(n % 10) + 1]>>

\* String(n).padStart(2, "0")
Pad2(n) == IF Len(ToDec(n)) < 2 THEN <<"0">> \o ToDec(n) ELSE ToDec(n)

(***************************************************************************)
(* Dates.  A timestamp is epoch seconds; an ISO-8601 UTC string is the     *)
(* record of its fields, and new Date(iso).getTime() is DateParse.         *)
(***************************************************************************)
\* days from 1970-01-01 to the civil date y-m-d (proleptic Gregorian)
DaysFromCivil(y, m, d) ==
    LET yy  == IF m <= 2 THEN y - 1 ELSE y
        era == yy \div 400
        yoe == yy - era * 400
        mp  == IF m > 2 THEN m - 3 ELSE m + 9
        doy == (153 * mp + 2) \div 5 + d - 1
        doe == yoe * 365 + yoe \div 4 - yoe \div 100 + doy
    IN  era * 146097 + doe - 719468

\* the civil date of a day number: getUTCFullYear / getUTCMonth + 1 / getUTCDate
CivilFromDays(z0) ==
    LET z   == z0 + 719468
        era == z \div 146097
        doe == z - era * 146097
        yoe == (doe - doe \div 1460 + doe \div 36524 - doe \div 146096) \div 365
        doy == doe - (365 * yoe + yoe \div 4 - yoe \div 100)
        mp  == (5 * doy + 2) \div 153
        d   == doy - (153 * mp + 2) \div 5 + 1
        m   == IF mp < 10 THEN mp + 3 ELSE mp - 9
        y   == yoe + era * 400 + (IF m <= 2 THEN 1 ELSE 0)
    IN  [y |-> y, m |-> m, d |-> d]

\* new Date("YYYY-MM-DDThh:mm:ssZ").getTime(), in seconds
DateParse(iso) ==
    DaysFromCivil(iso.y, iso.m, iso.d) * SecondsPerDay
        + iso.hh * 3600 + iso.mi * 60 + iso.ss

\* payload.captured_at ? new Date(payload.captured_at) : new Date()
Captured(payload, now) ==
    IF payload.captured_at # None THEN DateParse(payload.captured_at[1]) ELSE now

\* variant: the date of the instant itself, not shifted
getDateKeyJst_Utc(payload, now) ==
    LET c == CivilFromDays(Captured(payload, now) \div SecondsPerDay)
    IN  ToDec(c.y) \o <<"-">> \o Pad2(c.m) \o <<"-">> \o Pad2(c.d)

\* getDateKeyJst: YYYY-MM-DD of the instant shifted by +9 hours
getDateKeyJst(payload, now) ==
    LET jst == Captured(payload, now) + JST_OFFSET_SEC
        c   == CivilFromDays(jst \div SecondsPerDay)
    IN  ToDec(c.y) \o <<"-">> \o Pad2(c.m) \o <<"-">> \o Pad2(c.d)

(***************************************************************************)
(* Formatting.                                                             *)
(***************************************************************************)
RECURSIVE SplitComma(_, _)
\* s.split(","): cur is the piece being read
SplitComma(s, cur) ==
    IF s = <<>> THEN <<cur>>
    ELSE IF Head(s) = "," THEN <<cur>> \o SplitComma(Tail(s), <<>>)
    ELSE SplitComma(Tail(s), Append(cur, Head(s)))

RECURSIVE TrimAll(_)
TrimAll(ss) == IF ss = <<>> THEN <<>> ELSE <<Trim(Head(ss))>> \o TrimAll(Tail(ss))

RECURSIVE FilterNonEmpty(_)
FilterNonEmpty(ss) ==
    IF ss = <<>> THEN <<>>
    ELSE IF Head(ss) = <<>> THEN FilterNonEmpty(Tail(ss))
    ELSE <<Head(ss)>> \o FilterNonEmpty(Tail(ss))

RECURSIVE Dedupe(_, _)
\* [...new Set(ss)]: first occurrences, in order
Dedupe(ss, seen) ==
    IF ss = <<>> THEN <<>>
    ELSE IF Head(ss) \in seen THEN Dedupe(Tail(ss), seen)
    ELSE <<Head(ss)>> \o Dedupe(Tail(ss), seen \cup {Head(ss)})

\* variant: the payload's labels come before the defaults
parseLabels_PayloadFirst(defaultLabelsCsv, payloadLabels) ==
    LET base  == FilterNonEmpty(TrimAll(SplitComma(defaultLabelsCsv, <<>>)))
        extra == IF payloadLabels = None THEN <<>>
                 ELSE FilterNonEmpty(TrimAll(payloadLabels[1]))
    IN  Dedupe(extra \o base, {})

\* parseLabels(defaultLabelsCsv, payloadLabels); a payloadLabels that is not an
\* array is None
parseLabels(defaultLabelsCsv, payloadLabels) ==
    LET base  == FilterNonEmpty(TrimAll(SplitComma(defaultLabelsCsv, <<>>)))
        extra == IF payloadLabels = None THEN <<>>
                 ELSE FilterNonEmpty(TrimAll(payloadLabels[1]))
    IN  Dedupe(base \o extra, {})

\* variant: the prefix is written whenever kind has characters, blank or not
formatEntry_BlankKind(payload, now) ==
    LET jst    == Captured(payload, now) + JST_OFFSET_SEC
        hh     == Pad2((jst \div 3600) % 24)
        mi     == Pad2((jst \div 60) % 60)
        raw    == Trim(IF payload.raw = None THEN <<>> ELSE payload.raw[1])
        kind   == IF payload.kind = None THEN <<>> ELSE payload.kind[1]
        prefix == IF kind # <<>>
                  THEN <<"*", "*", "[">> \o Trim(kind) \o <<"]", "*", "*", " ">>
                  ELSE <<>>
    IN  <<"#", "#", " ">> \o hh \o <<":">> \o mi \o <<"\n">> \o prefix \o raw \o <<"\n">>

\* formatEntry: "## HH:MM\n" + optional "**[kind]** " + trimmed raw + "\n"
formatEntry(payload, now) ==
    LET jst    == Captured(payload, now) + JST_OFFSET_SEC
        hh     == Pad2((jst \div 3600) % 24)
        mi     == Pad2((jst \div 60) % 60)
        raw    == Trim(IF payload.raw = None THEN <<>> ELSE payload.raw[1])
        kind   == Trim(IF payload.kind = None THEN <<>> ELSE payload.kind[1])
        prefix == IF kind # <<>>
                  THEN <<"*", "*", "[">> \o kind \o <<"]", "*", "*", " ">>
                  ELSE <<>>
    IN  <<"#", "#", " ">> \o hh \o <<":">> \o mi \o <<"\n">> \o prefix \o raw \o <<"\n">>

\* sha256(JSON.stringify({ dateKey, entry, labels })): the canonical JSON is
\* injective in the three values and SHA-256 is taken as collision free
PayloadHash(dateKey, entry, labels) == <<dateKey, entry, labels>>

(***************************************************************************)
(* Configuration (ThoughtLogConfig, ContainerEnv) and inputs.              *)
(***************************************************************************)
Owner == <<"o", "w", "n", "e", "r">>
Repo == <<"r", "e", "p", "o">>
ThoughtlogLabel == <<"t", "h", "o", "u", "g", "h", "t", "l", "o", "g">>
DefaultLabelsCsv == ThoughtlogLabel

\* 2024-01-14T20:00:00Z
T1 == [y |-> 2024, m |-> 1, d |-> 14, hh |-> 20, mi |-> 0, ss |-> 0]
\* the clock starts at 2024-01-14T14:59:30Z: one TickStep later the minute
\* and the UTC+9 calendar date have both changed
Now0 == DateParse([y |-> 2024, m |-> 1, d |-> 14, hh |-> 14, mi |-> 59, ss |-> 30])
TickStep == 60

Payloads ==
    { [request_id |-> Some(<<"r", "1">>), captured_at |-> Some(T1),
       raw |-> Some(<<"h", "i">>), kind |-> Some(<<"i", "d", "e", "a">>),
       labels |-> None, source |-> Some("voice")],
      [request_id |-> Some(<<" ", "r", "1">>), captured_at |-> None,
       raw |-> Some(<<"h", "i", " ">>), kind |-> None,
       labels |-> None, source |-> None],
      [request_id |-> Some(<<"r", "1">>), captured_at |-> Some(T1),
       raw |-> Some(<<"y", "o">>), kind |-> Some(<<"i", "d", "e", "a">>),
       labels |-> None, source |-> None],
      [request_id |-> Some(<<"r", "2">>), captured_at |-> Some(T1),
       raw |-> Some(<<"h", "i">>), kind |-> None,
       labels |-> Some(<<ThoughtlogLabel, <<" ">>>>), source |-> Some("voice")] }
    \cup
    \* request_id missing, empty, only white space
    { [request_id |-> rid, captured_at |-> Some(T1),
       raw |-> Some(<<"h", "i">>), kind |-> None,
       labels |-> None, source |-> Some("voice")] :
         rid \in {None, Some(<<>>), Some(<<" ", "\t">>)} }

\* variant: the request_id is not trimmed
RequestIdOf_NoTrim(payload) ==
    IF payload.request_id = None THEN <<>> ELSE payload.request_id[1]

\* payload.request_id trimmed: the key of the ledger
RequestIdOf(payload) ==
    Trim(IF payload.request_id = None THEN <<>> ELSE payload.request_id[1])

RequestIds == {RequestIdOf(p) : p \in Payloads} \ {<<>>}

Invs == 1..NumInv

(***************************************************************************)
(* Errors.  An error carries the call that raised it and its message; a    *)
(* message is abstracted to its text and its length in characters.         *)
(***************************************************************************)
ErrLen(op) ==
    CASE op = "getInstallationToken" -> 5
      [] op = "findDailyIssue" -> 900
      [] op = "createDailyIssue" -> 901
      [] op = "getIssue" -> 12
      [] op = "addComment" -> 2000
      [] op = "markDone" -> 899
      [] OTHER -> 7

ErrorOf(op) == [from |-> op, message |-> [text |-> op, len |-> ErrLen(op)]]

ValidationError ==
    [from |-> "createEntry",
     message |-> [text |-> "request_id must be a non-empty string", len |-> 37]]

\* variant: the cut keeps one character less than n
Slice_OneLess(msg, n) ==
    [text |-> msg.text, len |-> IF msg.len < n THEN msg.len ELSE n - 1]

\* String(errMsg).slice(0, n)
Slice(msg, n) == [text |-> msg.text, len |-> IF msg.len < n THEN msg.len ELSE n]

(***************************************************************************)
(* State.                                                                  *)
(***************************************************************************)
VARIABLES
    tableName,     \* idempotencyTable: None when not configured (ledger disabled)
    queueService,  \* TRUE when a queue service was injected
    now,           \* the clock, epoch seconds
    ticks,         \* clock advances so far
    ledger,        \* the DynamoDB table: request_id -> optional item
    issues,        \* the issue tracker's issues, by number
    comments,      \* the issue tracker's comments
    queue,         \* messages accepted by the queue
    inv,           \* the createEntry invocations
    claimer,       \* history: request_id -> the invocation whose put created its item (0: none)
    expired,       \* history: request_ids whose item the store has purged
    logInv,        \* the getLog and updateLog invocations
    refInv,         \* the refineComment invocations
    call,          \* the last call of a pure function: its arguments and its result
    secrets,       \* the secret provider: its cache, and the access in progress
    idempotencyTtlDays, \* the configured retention of ledger records, if any
    defaultLabels,      \* config.defaultLabels: the configured default label list
    batchInv            \* the queue handler's invocation: its batch and its place in it

vars == <<tableName, queueService, now, ticks, ledger, issues, comments, queue,
          inv, claimer, expired, logInv, refInv, call, secrets,
          idempotencyTtlDays, defaultLabels, batchInv>>

DEFAULT_TTL_MS == 5 * 60 * 1000

\* the secret provider as constructed: nothing cached, cacheExpiresAt = 0; no
\* access yet; sends counts the requests to the secret store
NewProvider ==
    [ttlMs |-> DEFAULT_TTL_MS, cachedValue |-> None, cacheExpiresAt |-> 0,
     sends |-> 0, accesses |-> 0,
     acc |-> [pc |-> "idle", getter |-> "", result |-> None, thrown |-> None,
              contacts |-> 0]]

\* no pure function has been called
NoCall == [fn |-> "none"]

LogInvs == 1..NumLog

RefInvs == 1..NumRef

\* a getLog or updateLog invocation before it is called
IdleLog ==
    [pc |-> "idle", op |-> "", dateKey |-> <<>>, newBody |-> <<>>, found |-> None,
     page |-> 0, acc |-> <<>>, outcome |-> None, thrown |-> None, calls |-> <<>>]

\* the queue handler before an event is delivered
IdleBatch ==
    [pc |-> "idle", records |-> <<>>, k |-> 0, log |-> <<>>, thrown |-> None]

\* a refineComment invocation before it is called
IdleRef ==
    [pc |-> "idle", commentId |-> 0, fetched |-> None, header |-> <<>>,
     content |-> <<>>, refined |-> <<>>, thrown |-> None, calls |-> <<>>]

IdleInv ==
    [pc |-> "idle", payload |-> None, requestId |-> <<>>, dateKey |-> <<>>,
     labels |-> <<>>, entry |-> <<>>, payloadHash |-> <<>>, idem |-> None,
     issue |-> None, comment |-> None, err |-> None, mfArg |-> None,
     outcome |-> None, thrown |-> None, calls |-> <<>>, prior |-> {}, seen |-> None,
     found |-> None]

Init ==
    /\ tableName \in {None, Some(<<"t", "b", "l">>)}
    /\ queueService \in BOOLEAN
    /\ now = Now0
    /\ ticks = 0
    /\ ledger = [r \in RequestIds |-> None]
    /\ issues = <<>>
    /\ comments = <<>>
    /\ queue = <<>>
    /\ inv = [i \in Invs |-> IdleInv]
    /\ claimer = [r \in RequestIds |-> 0]
    /\ expired = {}
    /\ logInv = [i \in LogInvs |-> IdleLog]
    /\ refInv = [i \in RefInvs |-> IdleRef]
    /\ call = NoCall
    /\ secrets = NewProvider
    /\ idempotencyTtlDays \in {None, Some(30)}
    /\ defaultLabels = DefaultLabelsCsv
    /\ batchInv = IdleBatch

\* nowEpoch(): Math.floor(Date.now() / 1000)
nowEpoch == now

InFlight(i) == inv[i].pc \notin {"idle", "done"}

\* the record of a call in an invocation's history
Log(r, op, ok) == Append(r.calls, [op |-> op, ok |-> ok])

(***************************************************************************)
(* Idempotency ledger (DynamoDBIdempotencyService).                        *)
(***************************************************************************)
\* private readonly ttlDays: number = 14
ttlDays == IF idempotencyTtlDays = None THEN DefaultTtlDays ELSE idempotencyTtlDays[1]

\* variant: the configured retention is not used
ProcessingItem_DefaultTtl(payloadHash, t) ==
    [status |-> "processing", payload_hash |-> Some(payloadHash),
     created_at |-> Some(t), ttl |-> Some(t + DefaultTtlDays * SecondsPerDay),
     issue_number |-> None, issue_url |-> None, comment_id |-> None,
     error |-> None]

\* the item written by claim's PutCommand
ProcessingItem(payloadHash, t) ==
    [status |-> "processing", payload_hash |-> Some(payloadHash),
     created_at |-> Some(t), ttl |-> Some(t + ttlDays * SecondsPerDay),
     issue_number |-> None, issue_url |-> None, comment_id |-> None,
     error |-> None]

\* an UpdateCommand on a missing key creates the item with the key alone
KeyOnlyItem ==
    [status |-> "", payload_hash |-> None, created_at |-> None, ttl |-> None,
     issue_number |-> None, issue_url |-> None, comment_id |-> None,
     error |-> None]

ItemOrKey(item) == IF item = None THEN KeyOnlyItem ELSE item[1]

\* variant: the put carries no ConditionExpression
ConditionHolds_Always(item) == TRUE

\* ConditionExpression: "attribute_not_exists(request_id)"
ConditionHolds(item) == item = None

\* variant: an item gone at the re-read counts as claimed
RaceRetry_Claimed == [enabled |-> TRUE, claimed |-> TRUE]

\* the answers of claim's catch block: idempotency_race_retry when the item is gone
RaceRetry ==
    [enabled |-> TRUE, claimed |-> FALSE, statusCode |-> 409,
     body |-> [ok |-> FALSE, error |-> "idempotency_race_retry"]]

\* item.payload_hash && item.payload_hash !== payloadHash
Reused ==
    [enabled |-> TRUE, claimed |-> FALSE, statusCode |-> 409,
     body |-> [ok |-> FALSE, error |-> "request_id_reused_with_different_payload"]]

\* item.status === "done": the recorded result
Replay200(item) ==
    [enabled |-> TRUE, claimed |-> FALSE, statusCode |-> 200,
     body |-> [ok |-> TRUE, idempotent |-> TRUE,
               issue_number |-> item[1].issue_number,
               issue_url |-> item[1].issue_url,
               comment_id |-> item[1].comment_id]]

\* otherwise: status: item.status || "processing"
Pending202(item) ==
    [enabled |-> TRUE, claimed |-> FALSE, statusCode |-> 202,
     body |-> [ok |-> TRUE, idempotent |-> TRUE,
               status |-> IF item[1].status = "" THEN "processing"
                          ELSE item[1].status]]

HashDiffers(item, payloadHash) ==
    item[1].payload_hash # None /\ item[1].payload_hash[1] # payloadHash

\* variant: the done branch is missing, a done record answers 202 like the rest
ClaimResult_DoneAsPending(item, payloadHash) ==
    IF item = None THEN RaceRetry
    ELSE IF HashDiffers(item, payloadHash) THEN Reused
    ELSE Pending202(item)

\* variant: the status is looked at before the payload_hash
ClaimResult_StatusFirst(item, payloadHash) ==
    IF item = None THEN RaceRetry
    ELSE IF item[1].status = "done" THEN Replay200(item)
    ELSE IF HashDiffers(item, payloadHash) THEN Reused
    ELSE Pending202(item)

\* variant: a failed record lets the caller try again
ClaimResult_RetryFailed(item, payloadHash) ==
    IF item = None THEN RaceRetry
    ELSE IF HashDiffers(item, payloadHash) THEN Reused
    ELSE IF item[1].status = "done" THEN Replay200(item)
    ELSE IF item[1].status = "failed" THEN [enabled |-> TRUE, claimed |-> TRUE]
    ELSE Pending202(item)

\* variant: a processing record is taken over by the caller
ClaimResult_TakeOver(item, payloadHash) ==
    IF item = None THEN RaceRetry
    ELSE IF HashDiffers(item, payloadHash) THEN Reused
    ELSE IF item[1].status = "done" THEN Replay200(item)
    ELSE IF item[1].status = "processing" THEN [enabled |-> TRUE, claimed |-> TRUE]
    ELSE Pending202(item)

\* variant: a done record is processed again
ClaimResult_RedoDone(item, payloadHash) ==
    IF item = None THEN RaceRetry
    ELSE IF HashDiffers(item, payloadHash) THEN Reused
    ELSE IF item[1].status = "done" THEN [enabled |-> TRUE, claimed |-> TRUE]
    ELSE Pending202(item)

\* claim, after the conditional put failed: the result for the item re-read
ClaimResult(item, payloadHash) ==
    IF item = None THEN RaceRetry
    ELSE IF HashDiffers(item, payloadHash) THEN Reused
    ELSE IF item[1].status = "done" THEN Replay200(item)
    ELSE Pending202(item)

\* markDone's UpdateCommand: SET #s = :done, issue_number, issue_url, comment_id
MarkDoneItem(item, issue_number, issue_url, comment_id) ==
    Some([ItemOrKey(item) EXCEPT !.status = "done",
                                 !.issue_number = Some(issue_number),
                                 !.issue_url = issue_url,
                                 !.comment_id = Some(comment_id)])

\* variant: the update writes the error and leaves the status alone
MarkFailedItem_NoStatus(item, errMsg) ==
    Some([ItemOrKey(item) EXCEPT !.error = Some(Slice(errMsg, MaxErrorLen))])

\* markFailed's UpdateCommand: SET #s = :fail, error = :err
MarkFailedItem(item, errMsg) ==
    Some([ItemOrKey(item) EXCEPT !.status = "failed",
                                 !.error = Some(Slice(errMsg, MaxErrorLen))])

(***************************************************************************)
(* Issue tracker (GitHubApiService over the GitHub REST API).              *)
(***************************************************************************)
SearchPerPage == 5           \* &per_page=5

Range(f) == {f[k] : k \in DOMAIN f}

Contains(t, d) ==
    \E k \in 1..(Len(t) - Len(d) + 1) : SubSeq(t, k, k + Len(d) - 1) = d

HtmlUrl(number) == <<"issues", number>>

\* labels.includes("thoughtlog") ? "thoughtlog" : labels[0]
PrimaryLabel(labels) ==
    IF ThoughtlogLabel \in Range(labels) THEN Some(ThoughtlogLabel)
    ELSE IF labels # <<>> THEN Some(labels[1])
    ELSE None

\* the open issues the search query selects: "dateKey" in:title, state:open,
\* label:primaryLabel when there is one
SearchMatches(dateKey, labels) ==
    {k \in 1..Len(issues) :
        /\ issues[k].state = "open"
        /\ Contains(issues[k].title, dateKey)
        /\ \/ PrimaryLabel(labels) = None
           \/ PrimaryLabel(labels)[1] \in Range(issues[k].labels)}

\* the result pages the search may return: per_page of the matches, in an
\* order the code does not choose
SearchPages(dateKey, labels) ==
    LET m == SearchMatches(dateKey, labels)
        n == IF Cardinality(m) < SearchPerPage THEN Cardinality(m) ELSE SearchPerPage
    IN  {pg \in SUBSET m : Cardinality(pg) = n}

\* findDailyIssue: the numbers items.find(title.trim() === dateKey) may return
FindDailyIssue(dateKey, labels) ==
    UNION {IF \E k \in pg : Trim(issues[k].title) = dateKey
           THEN {Some(k) : k \in {j \in pg : Trim(issues[j].title) = dateKey}}
           ELSE {None} : pg \in SearchPages(dateKey, labels)}

\* the issue as an API response; a search item may come without html_url
IssueView(k, partial) ==
    [number |-> k, html_url |-> IF partial THEN None ELSE Some(HtmlUrl(k)),
     title |-> issues[k].title]

\* createDailyIssue: title = dateKey, the placeholder body, the labels
NewIssue(dateKey, labels) ==
    [number |-> Len(issues) + 1, title |-> dateKey, state |-> "open",
     labels |-> labels, body |-> <<"#", " ">> \o dateKey \o <<"\n", "\n", "<!-- summary will be generated later -->", "\n">>]

\* addComment's new comment
NewComment(issueNumber, commentBody) ==
    [id |-> 100 + Len(comments) + 1, issue |-> issueNumber, body |-> Some(commentBody)]

(***************************************************************************)
(* ThoughtLogService.createEntry, one step per await.                      *)
(***************************************************************************)
\* return outcome
Return(r, outcome) == [r EXCEPT !.pc = "done", !.outcome = Some(outcome)]

\* throw e out of createEntry
Throw(r, e) == [r EXCEPT !.pc = "done", !.thrown = Some(e)]

\* variant: the catch block rethrows without markFailed
Catch_NoMark(r, e) == Throw(r, e)

\* catch (e) of the try block: markFailed comes next, then the rethrow
Catch(r, e) == [r EXCEPT !.pc = "markFailed", !.err = Some(e)]

\* the created outcome of the return statement
Created(r) ==
    [kind |-> "created", date |-> r.dateKey, issue_number |-> r.issue[1].number,
     issue_url |-> r.issue[1].html_url, comment_id |-> r.comment[1].id]

\* variant: the source is not looked at
WantsQueue_AnySource(r) == queueService

\* payload.source === "voice" && this.queueService
WantsQueue(r) == r.payload[1].source = Some("voice") /\ queueService

\* after markDone returned: the queue send when wanted, else the return
AfterMarkDone(r) ==
    IF WantsQueue(r) THEN [r EXCEPT !.pc = "sendMessage"] ELSE Return(r, Created(r))

\* lines 34-49: validation and the values computed before claim
Start(i, p) ==
    /\ inv[i].pc = "idle"
    /\ \A j \in Invs : j < i => inv[j].pc # "idle"
    /\ LET requestId == RequestIdOf(p)
           dateKey == getDateKeyJst(p, now)
           labels == parseLabels(defaultLabels, p.labels)
           entry == formatEntry(p, now)
           r0 == [inv[i] EXCEPT !.payload = Some(p), !.requestId = requestId,
                                !.prior = {j \in Invs : inv[j].pc = "done"},
                                !.seen = IF requestId \in RequestIds
                                         THEN ledger[requestId] ELSE None]
       IN  inv' = [inv EXCEPT ![i] =
                IF requestId = <<>> THEN Throw(r0, ValidationError)
                ELSE [r0 EXCEPT !.pc = "claim", !.dateKey = dateKey,
                                !.labels = labels, !.entry = entry,
                                !.payloadHash = PayloadHash(dateKey, entry, labels)]]
    /\ UNCHANGED <<batchInv, defaultLabels, idempotencyTtlDays, secrets, call, logInv, refInv, tableName, queueService, now, ticks, ledger, issues, comments,
                   queue, claimer, expired>>

\* claim with no table configured: { enabled: false, claimed: true }
ClaimDisabled(i) ==
    /\ inv[i].pc = "claim"
    /\ tableName = None
    /\ inv' = [inv EXCEPT ![i] =
            [inv[i] EXCEPT !.pc = "getInstallationToken",
                           !.idem = Some([enabled |-> FALSE, claimed |-> TRUE]),
                           !.calls = Log(inv[i], "claim", TRUE)]]
    /\ UNCHANGED <<batchInv, defaultLabels, idempotencyTtlDays, secrets, call, logInv, refInv, tableName, queueService, now, ticks, ledger, issues, comments,
                   queue, claimer, expired>>

\* claim's PutCommand succeeds: the item is created in status processing
ClaimPut(i) ==
    /\ inv[i].pc = "claim"
    /\ tableName # None
    /\ ConditionHolds(ledger[inv[i].requestId])
    /\ ledger' = [ledger EXCEPT ![inv[i].requestId] =
                    Some(ProcessingItem(inv[i].payloadHash, nowEpoch))]
    /\ claimer' = [claimer EXCEPT ![inv[i].requestId] = i]
    /\ inv' = [inv EXCEPT ![i] =
            [inv[i] EXCEPT !.pc = "getInstallationToken",
                           !.idem = Some([enabled |-> TRUE, claimed |-> TRUE]),
                           !.calls = Log(inv[i], "claim", TRUE)]]
    /\ UNCHANGED <<batchInv, defaultLabels, idempotencyTtlDays, secrets, call, logInv, refInv, tableName, queueService, now, ticks, issues, comments, queue,
                   expired>>

\* claim's PutCommand fails with ConditionalCheckFailedException: re-read next
ClaimConflict(i) ==
    /\ inv[i].pc = "claim"
    /\ tableName # None
    /\ ~ConditionHolds(ledger[inv[i].requestId])
    /\ inv' = [inv EXCEPT ![i] = [inv[i] EXCEPT !.pc = "claimGet"]]
    /\ UNCHANGED <<batchInv, defaultLabels, idempotencyTtlDays, secrets, call, logInv, refInv, tableName, queueService, now, ticks, ledger, issues, comments,
                   queue, claimer, expired>>

\* variant: claim is awaited inside the try block
ClaimStoreError_InTry(i) ==
    /\ inv[i].pc \in {"claim", "claimGet"}
    /\ tableName # None
    /\ inv' = [inv EXCEPT ![i] =
            Catch([inv[i] EXCEPT !.calls = Log(inv[i], "claim", FALSE)],
                  ErrorOf("claim"))]
    /\ UNCHANGED <<batchInv, defaultLabels, idempotencyTtlDays, secrets, call, logInv, refInv, tableName, queueService, now, ticks, ledger, issues, comments,
                   queue, claimer, expired>>

\* claim's PutCommand or GetCommand fails with another store error: claim
\* throws it and createEntry, whose call is outside the try block, throws too
ClaimStoreError(i) ==
    /\ inv[i].pc \in {"claim", "claimGet"}
    /\ tableName # None
    /\ inv' = [inv EXCEPT ![i] =
            Throw([inv[i] EXCEPT !.calls = Log(inv[i], "claim", FALSE)],
                  ErrorOf("claim"))]
    /\ UNCHANGED <<batchInv, defaultLabels, idempotencyTtlDays, secrets, call, logInv, refInv, tableName, queueService, now, ticks, ledger, issues, comments,
                   queue, claimer, expired>>

\* claim's GetCommand answers: the idempotent outcome is returned
ClaimGet(i) ==
    /\ inv[i].pc = "claimGet"
    /\ LET idem == ClaimResult(ledger[inv[i].requestId], inv[i].payloadHash)
           r1 == [inv[i] EXCEPT !.idem = Some(idem),
                                !.calls = Log(inv[i], "claim", TRUE)]
       IN  inv' = [inv EXCEPT ![i] =
                IF idem.enabled /\ ~idem.claimed
                THEN Return(r1, [kind |-> "idempotent",
                                 statusCode |-> idem.statusCode, body |-> idem.body])
                ELSE [r1 EXCEPT !.pc = "getInstallationToken"]]
    /\ UNCHANGED <<batchInv, defaultLabels, idempotencyTtlDays, secrets, call, logInv, refInv, tableName, queueService, now, ticks, ledger, issues, comments,
                   queue, claimer, expired>>

\* the awaited calls of the try block that reach a collaborator over the network
TryCalls ==
    {"getInstallationToken", "findDailyIssue", "createDailyIssue", "getIssue",
     "addComment"}

\* variant: a rejected call of the try block is made again
CallFails_Retry(i) ==
    /\ \/ inv[i].pc \in TryCalls
       \/ inv[i].pc = "markDone" /\ tableName # None
    /\ inv' = [inv EXCEPT ![i] =
            [inv[i] EXCEPT !.calls = Log(inv[i], inv[i].pc, FALSE)]]
    /\ UNCHANGED <<batchInv, defaultLabels, idempotencyTtlDays, secrets, call, logInv, refInv, tableName, queueService, now, ticks, ledger, issues, comments,
                   queue, claimer, expired>>

\* an awaited call of the try block rejects: nothing was changed by it
CallFails(i) ==
    /\ \/ inv[i].pc \in TryCalls
       \/ inv[i].pc = "markDone" /\ tableName # None
    /\ inv' = [inv EXCEPT ![i] =
            Catch([inv[i] EXCEPT !.calls = Log(inv[i], inv[i].pc, FALSE)],
                  ErrorOf(inv[i].pc))]
    /\ UNCHANGED <<batchInv, defaultLabels, idempotencyTtlDays, secrets, call, logInv, refInv, tableName, queueService, now, ticks, ledger, issues, comments,
                   queue, claimer, expired>>

\* const token = await this.auth.getInstallationToken()
GetToken(i) ==
    /\ inv[i].pc = "getInstallationToken"
    /\ inv' = [inv EXCEPT ![i] =
            [inv[i] EXCEPT !.pc = "findDailyIssue",
                           !.calls = Log(inv[i], "getInstallationToken", TRUE)]]
    /\ UNCHANGED <<batchInv, defaultLabels, idempotencyTtlDays, secrets, call, logInv, refInv, tableName, queueService, now, ticks, ledger, issues, comments,
                   queue, claimer, expired>>

\* variant: a search item without html_url is used as it is
AfterFind_NoRefetch(r, found, partial) ==
    IF found = None THEN [r EXCEPT !.pc = "createDailyIssue", !.found = Some(None)]
    ELSE [r EXCEPT !.pc = "addComment", !.issue = Some(IssueView(found[1], partial)),
                   !.found = Some(Some(IssueView(found[1], partial)))]

\* after findDailyIssue answered: create, re-fetch, or comment
AfterFind(r, found, partial) ==
    IF found = None THEN [r EXCEPT !.pc = "createDailyIssue", !.found = Some(None)]
    ELSE IF partial
    THEN [r EXCEPT !.pc = "getIssue", !.issue = Some(IssueView(found[1], TRUE)),
                   !.found = Some(Some(IssueView(found[1], TRUE)))]
    ELSE [r EXCEPT !.pc = "addComment", !.issue = Some(IssueView(found[1], FALSE)),
                   !.found = Some(Some(IssueView(found[1], FALSE)))]

\* let issue = await this.github.findDailyIssue(...)
FindIssue(i) ==
    /\ inv[i].pc = "findDailyIssue"
    /\ \E found \in FindDailyIssue(inv[i].dateKey, inv[i].labels), partial \in BOOLEAN :
          inv' = [inv EXCEPT ![i] =
              AfterFind([inv[i] EXCEPT !.calls = Log(inv[i], "findDailyIssue", TRUE)],
                        found, partial)]
    /\ UNCHANGED <<batchInv, defaultLabels, idempotencyTtlDays, secrets, call, logInv, refInv, tableName, queueService, now, ticks, ledger, issues, comments,
                   queue, claimer, expired>>

\* issue = await this.github.createDailyIssue(...)
CreateIssue(i) ==
    /\ inv[i].pc = "createDailyIssue"
    /\ issues' = Append(issues, NewIssue(inv[i].dateKey, inv[i].labels))
    /\ inv' = [inv EXCEPT ![i] =
            [inv[i] EXCEPT !.pc = "addComment",
                           !.issue = Some([number |-> Len(issues) + 1,
                                           html_url |-> Some(HtmlUrl(Len(issues) + 1)),
                                           title |-> inv[i].dateKey]),
                           !.calls = Log(inv[i], "createDailyIssue", TRUE)]]
    /\ UNCHANGED <<batchInv, defaultLabels, idempotencyTtlDays, secrets, call, logInv, refInv, tableName, queueService, now, ticks, ledger, comments, queue,
                   claimer, expired>>

\* issue = await this.github.getIssue({ issueNumber: issue.number })
GetIssue(i) ==
    /\ inv[i].pc = "getIssue"
    /\ inv' = [inv EXCEPT ![i] =
            [inv[i] EXCEPT !.pc = "addComment",
                           !.issue = Some(IssueView(inv[i].issue[1].number, FALSE)),
                           !.calls = Log(inv[i], "getIssue", TRUE)]]
    /\ UNCHANGED <<batchInv, defaultLabels, idempotencyTtlDays, secrets, call, logInv, refInv, tableName, queueService, now, ticks, ledger, issues, comments,
                   queue, claimer, expired>>

\* const comment = await this.github.addComment(...)
AddComment(i) ==
    /\ inv[i].pc = "addComment"
    /\ comments' = Append(comments, NewComment(inv[i].issue[1].number, inv[i].entry))
    /\ inv' = [inv EXCEPT ![i] =
            [inv[i] EXCEPT !.pc = "markDone",
                           !.comment = Some([id |-> 100 + Len(comments) + 1,
                                             body |-> inv[i].entry]),
                           !.calls = Log(inv[i], "addComment", TRUE)]]
    /\ UNCHANGED <<batchInv, defaultLabels, idempotencyTtlDays, secrets, call, logInv, refInv, tableName, queueService, now, ticks, ledger, issues, queue,
                   claimer, expired>>

\* variant: markDone lacks the early return for a missing table name
MarkDone_NoGuard(i) ==
    /\ inv[i].pc = "markDone"
    /\ ledger' = [ledger EXCEPT ![inv[i].requestId] =
                    MarkDoneItem(@, inv[i].issue[1].number, inv[i].issue[1].html_url,
                                 inv[i].comment[1].id)]
    /\ inv' = [inv EXCEPT ![i] =
            AfterMarkDone([inv[i] EXCEPT !.calls = Log(inv[i], "markDone", TRUE)])]
    /\ UNCHANGED <<batchInv, defaultLabels, idempotencyTtlDays, secrets, call, logInv, refInv, tableName, queueService, now, ticks, issues, comments, queue,
                   claimer, expired>>

\* await this.idempotency.markDone(...): a no-op without a table
MarkDone(i) ==
    /\ inv[i].pc = "markDone"
    /\ ledger' =
         IF tableName = None THEN ledger
         ELSE [ledger EXCEPT ![inv[i].requestId] =
                  MarkDoneItem(@, inv[i].issue[1].number, inv[i].issue[1].html_url,
                               inv[i].comment[1].id)]
    /\ inv' = [inv EXCEPT ![i] =
            AfterMarkDone([inv[i] EXCEPT !.calls = Log(inv[i], "markDone", TRUE)])]
    /\ UNCHANGED <<batchInv, defaultLabels, idempotencyTtlDays, secrets, call, logInv, refInv, tableName, queueService, now, ticks, issues, comments, queue,
                   claimer, expired>>

\* JSON.stringify(message) of the VoiceRefineMessage
RefineMessage(r) ==
    [owner |-> Owner, repo |-> Repo, issueNumber |-> r.issue[1].number,
     commentId |-> r.comment[1].id]

\* await this.queueService.sendMessage(...) resolves
SendMessage(i) ==
    /\ inv[i].pc = "sendMessage"
    /\ queue' = Append(queue, RefineMessage(inv[i]))
    /\ inv' = [inv EXCEPT ![i] =
            Return([inv[i] EXCEPT !.calls = Log(inv[i], "sendMessage", TRUE)],
                   Created(inv[i]))]
    /\ UNCHANGED <<batchInv, defaultLabels, idempotencyTtlDays, secrets, call, logInv, refInv, tableName, queueService, now, ticks, ledger, issues, comments,
                   claimer, expired>>

\* variant: the queue send sits in the outer try block without a catch of its own
OnQueueError_Rethrow(r) == Catch(r, ErrorOf("sendMessage"))

\* catch (queueError): the failure is logged and the return statement follows
OnQueueError(r) == Return(r, Created(r))

\* sendMessage rejects
SendMessageFails(i) ==
    /\ inv[i].pc = "sendMessage"
    /\ inv' = [inv EXCEPT ![i] =
            OnQueueError([inv[i] EXCEPT !.calls = Log(inv[i], "sendMessage", FALSE)])]
    /\ UNCHANGED <<batchInv, defaultLabels, idempotencyTtlDays, secrets, call, logInv, refInv, tableName, queueService, now, ticks, ledger, issues, comments,
                   queue, claimer, expired>>

\* e instanceof Error ? e.message : String(e)
MessageOf(e) == e.message

\* variant: markFailed has no catch of its own, its store error replaces e
AfterMarkFailed_Masks(r, ok) ==
    Throw([r EXCEPT !.mfArg = Some(MessageOf(r.err[1])),
                    !.calls = Log(r, "markFailed", ok)],
          IF ok THEN r.err[1] ELSE ErrorOf("markFailed"))

\* after markFailed returned: throw e
AfterMarkFailed(r, ok) ==
    Throw([r EXCEPT !.mfArg = Some(MessageOf(r.err[1])),
                    !.calls = Log(r, "markFailed", ok)],
          r.err[1])

\* await this.idempotency.markFailed(requestId, message): the update is written
\* (a no-op without a table)
MarkFailed(i) ==
    /\ inv[i].pc = "markFailed"
    /\ ledger' =
         IF tableName = None THEN ledger
         ELSE [ledger EXCEPT ![inv[i].requestId] =
                  MarkFailedItem(@, MessageOf(inv[i].err[1]))]
    /\ inv' = [inv EXCEPT ![i] = AfterMarkFailed(inv[i], TRUE)]
    /\ UNCHANGED <<batchInv, defaultLabels, idempotencyTtlDays, secrets, call, logInv, refInv, tableName, queueService, now, ticks, issues, comments, queue,
                   claimer, expired>>

\* markFailed's UpdateCommand rejects: its catch swallows the store error
MarkFailedSwallows(i) ==
    /\ inv[i].pc = "markFailed"
    /\ tableName # None
    /\ inv' = [inv EXCEPT ![i] = AfterMarkFailed(inv[i], FALSE)]
    /\ UNCHANGED <<batchInv, defaultLabels, idempotencyTtlDays, secrets, call, logInv, refInv, tableName, queueService, now, ticks, ledger, issues, comments,
                   queue, claimer, expired>>

(***************************************************************************)
(* Environment: the clock and the store's TTL purge.                       *)
(***************************************************************************)
Tick ==
    /\ ticks < MaxTicks
    /\ ticks' = ticks + 1
    /\ now' = now + TickStep
    /\ UNCHANGED <<batchInv, defaultLabels, idempotencyTtlDays, secrets, call, logInv, refInv, tableName, queueService, ledger, issues, comments, queue, inv,
                   claimer, expired>>

\* The store purges an item once its ttl (14 days by default) has passed.  An
\* invocation lives at most as long as the function's timeout (one minute), so
\* the invocation that created the item has ended by then.
Expire(rid) ==
    /\ Cardinality(expired) < MaxExpire
    /\ ledger[rid] # None
    /\ claimer[rid] \in Invs => ~InFlight(claimer[rid])
    /\ ledger' = [ledger EXCEPT ![rid] = None]
    /\ expired' = expired \cup {rid}
    /\ claimer' = [claimer EXCEPT ![rid] = 0]
    /\ UNCHANGED <<batchInv, defaultLabels, idempotencyTtlDays, secrets, call, logInv, refInv, tableName, queueService, now, ticks, issues, comments, queue,
                   inv>>

Next ==
    \/ \E i \in Invs, p \in Payloads : Start(i, p)
    \/ \E i \in Invs : ClaimDisabled(i)
    \/ \E i \in Invs : ClaimPut(i)
    \/ \E i \in Invs : ClaimConflict(i)
    \/ \E i \in Invs : ClaimStoreError(i)
    \/ \E i \in Invs : ClaimGet(i)
    \/ \E i \in Invs : CallFails(i)
    \/ \E i \in Invs : GetToken(i)
    \/ \E i \in Invs : FindIssue(i)
    \/ \E i \in Invs : CreateIssue(i)
    \/ \E i \in Invs : GetIssue(i)
    \/ \E i \in Invs : AddComment(i)
    \/ \E i \in Invs : MarkDone(i)
    \/ \E i \in Invs : SendMessage(i)
    \/ \E i \in Invs : SendMessageFails(i)
    \/ \E i \in Invs : MarkFailed(i)
    \/ \E i \in Invs : MarkFailedSwallows(i)
    \/ Tick
    \/ \E rid \in RequestIds : Expire(rid)

Spec == Init /\ [][Next]_vars

(***************************************************************************)
(* ThoughtLogService.getLog and updateLog, one step per request to the     *)
(* issue tracker, over a repository that already holds issues.             *)
(***************************************************************************)
CommentsPerPage == 100       \* ?per_page=100

Day15 == <<"2", "0", "2", "4", "-", "0", "1", "-", "1", "5">>
Day14 == <<"2", "0", "2", "4", "-", "0", "1", "-", "1", "4">>

\* the dateKey path parameters of the requests
LogDates == {Day15, Day14}

\* the newBody arguments of updateLog
NewBodies == {<<"n", "e", "w">>, <<>>}

Iss(n, title, state, labels) ==
    [number |-> n, title |-> title, state |-> state, labels |-> labels,
     body |-> <<"o", "l", "d">>]

Com(id, issue, body) == [id |-> id, issue |-> issue, body |-> body]

\* the comments of a long day: every fiftieth comes without a body
LongDay(n) ==
    [k \in 1..n |-> Com(100 + k, 1, IF k % 50 = 0 THEN None ELSE Some(ToDec(k % 7)))]

\* the repositories the requests run against
SeedTrackers ==
    { [issues |-> <<>>, comments |-> <<>>],
      [issues |-> <<Iss(1, Day15 \o <<" ">>, "open", <<ThoughtlogLabel>>)>>,
       comments |-> <<Com(101, 1, Some(<<"#", "#", " ", "1", "0", ":", "3", "0", "\n", "a", "\n">>)),
                      Com(102, 1, None),
                      Com(103, 1, Some(<<>>)),
                      Com(104, 1, Some(<<"b">>))>>],
      [issues |-> <<Iss(1, Day15 \o <<" ", "x">>, "open", <<ThoughtlogLabel>>),
                    Iss(2, Day15, "closed", <<ThoughtlogLabel>>),
                    Iss(3, Day15, "open", <<ThoughtlogLabel, <<"x">>>>),
                    Iss(4, Day14, "open", <<<<"x">>>>)>>,
       comments |-> <<Com(101, 3, Some(<<"a">>)),
                      Com(102, 1, Some(<<"z">>)),
                      Com(103, 3, Some(<<"b">>)),
                      Com(104, 4, Some(<<"c">>))>>],
      [issues |-> <<Iss(1, Day15, "open", <<ThoughtlogLabel>>)>>,
       comments |-> LongDay(CommentsPerPage)],
      [issues |-> <<Iss(1, Day15, "open", <<ThoughtlogLabel>>)>>,
       comments |-> LongDay(CommentsPerPage + 1)] }

LogInit ==
    /\ tableName = None
    /\ queueService = FALSE
    /\ now = Now0
    /\ ticks = 0
    /\ ledger = [r \in RequestIds |-> None]
    /\ \E t \in SeedTrackers : issues = t.issues /\ comments = t.comments
    /\ queue = <<>>
    /\ inv = [i \in Invs |-> IdleInv]
    /\ claimer = [r \in RequestIds |-> 0]
    /\ expired = {}
    /\ logInv = [i \in LogInvs |-> IdleLog]
    /\ refInv = [i \in RefInvs |-> IdleRef]
    /\ call = NoCall
    /\ secrets = NewProvider
    /\ idempotencyTtlDays = None
    /\ defaultLabels = DefaultLabelsCsv
    /\ batchInv = IdleBatch

LogReturn(r, outcome) == [r EXCEPT !.pc = "done", !.outcome = Some(outcome)]

LogThrow(r, e) == [r EXCEPT !.pc = "done", !.thrown = Some(e)]

\* the record of a request in the invocation's history
LogCalled(r, op, ok) == [r EXCEPT !.calls = Append(@, [op |-> op, ok |-> ok])]

\* parseLabels(this.config.defaultLabels, [])
LogLabels == parseLabels(defaultLabels, Some(<<>>))

\* getLog(dateKey) is called
GetLogStart(i, d) ==
    /\ logInv[i].pc = "idle"
    /\ \A j \in LogInvs : j < i => logInv[j].pc # "idle"
    /\ logInv' = [logInv EXCEPT ![i] =
            [@ EXCEPT !.pc = "getInstallationToken", !.op = "getLog", !.dateKey = d]]
    /\ UNCHANGED <<batchInv, defaultLabels, idempotencyTtlDays, secrets, call, tableName, queueService, now, ticks, ledger, issues, comments,
                   queue, inv, claimer, expired, refInv>>

\* updateLog(dateKey, newBody) is called
UpdateLogStart(i, d, b) ==
    /\ logInv[i].pc = "idle"
    /\ \A j \in LogInvs : j < i => logInv[j].pc # "idle"
    /\ logInv' = [logInv EXCEPT ![i] =
            [@ EXCEPT !.pc = "getInstallationToken", !.op = "updateLog",
                      !.dateKey = d, !.newBody = b]]
    /\ UNCHANGED <<batchInv, defaultLabels, idempotencyTtlDays, secrets, call, tableName, queueService, now, ticks, ledger, issues, comments,
                   queue, inv, claimer, expired, refInv>>

\* const token = await this.auth.getInstallationToken()
LogGetToken(i) ==
    /\ logInv[i].pc = "getInstallationToken"
    /\ logInv' = [logInv EXCEPT ![i] =
            [LogCalled(@, "getInstallationToken", TRUE) EXCEPT !.pc = "findDailyIssue"]]
    /\ UNCHANGED <<batchInv, defaultLabels, idempotencyTtlDays, secrets, call, tableName, queueService, now, ticks, ledger, issues, comments,
                   queue, inv, claimer, expired, refInv>>

\* if (!issue) return { kind: "not_found", date: dateKey }; else the next call
AfterLogFind(r, found) ==
    IF found = None
    THEN LogReturn([r EXCEPT !.found = Some(None)],
                   [kind |-> "not_found", date |-> r.dateKey])
    ELSE IF r.op = "getLog"
    THEN [r EXCEPT !.found = Some(found), !.pc = "getIssueComments", !.page = 1]
    ELSE [r EXCEPT !.found = Some(found), !.pc = "updateIssue"]

\* const issue = await this.github.findDailyIssue(...)
LogFindIssue(i) ==
    /\ logInv[i].pc = "findDailyIssue"
    /\ \E found \in FindDailyIssue(logInv[i].dateKey, LogLabels) :
          logInv' = [logInv EXCEPT ![i] =
              AfterLogFind(LogCalled(@, "findDailyIssue", TRUE), found)]
    /\ UNCHANGED <<batchInv, defaultLabels, idempotencyTtlDays, secrets, call, tableName, queueService, now, ticks, ledger, issues, comments,
                   queue, inv, claimer, expired, refInv>>

\* the comments of issue k, in the order the tracker lists them
CommentsOf(k) == SelectSeq(comments, LAMBDA c : c.issue = k)

\* GET .../issues/k/comments?per_page=100&page=n
CommentsPage(k, n) ==
    LET all == CommentsOf(k)
        lo  == (n - 1) * CommentsPerPage + 1
        hi  == IF n * CommentsPerPage < Len(all) THEN n * CommentsPerPage ELSE Len(all)
    IN  SubSeq(all, lo, hi)

\* variant: a comment without a body is rendered as the text undefined
CommentBody_Undefined(c) ==
    IF c.body = None THEN <<"u", "n", "d", "e", "f", "i", "n", "e", "d">> ELSE c.body[1]

\* c.body || ""
CommentBody(c) == IF c.body = None THEN <<>> ELSE c.body[1]

RECURSIVE JoinRange(_, _, _)
\* the bodies of cs[lo..hi], joined with "\n"
JoinRange(cs, lo, hi) ==
    IF lo > hi THEN <<>>
    ELSE IF lo = hi THEN CommentBody(cs[lo])
    ELSE LET mid == (lo + hi) \div 2
         IN  JoinRange(cs, lo, mid) \o <<"\n">> \o JoinRange(cs, mid + 1, hi)

\* comments.map((c) => c.body || "").join("\n")
JoinNl(cs) == JoinRange(cs, 1, Len(cs))

\* variant: a short page ends the loop before it is added
AfterPage_DropShort(r, batch) ==
    IF batch = <<>> \/ Len(batch) < CommentsPerPage
    THEN LogReturn(r, [kind |-> "found", body |-> JoinNl(r.acc)])
    ELSE [r EXCEPT !.acc = @ \o batch, !.page = @ + 1]

\* getIssueComments after a page arrived: stop on an empty or short page, and
\* getLog then returns found
AfterPage(r, batch) ==
    IF batch = <<>>
    THEN LogReturn(r, [kind |-> "found", body |-> JoinNl(r.acc)])
    ELSE IF Len(batch) < CommentsPerPage
    THEN LogReturn([r EXCEPT !.acc = @ \o batch],
                   [kind |-> "found", body |-> JoinNl(r.acc \o batch)])
    ELSE [r EXCEPT !.acc = @ \o batch, !.page = @ + 1]

\* one page request of getIssueComments
LogGetPage(i) ==
    /\ logInv[i].pc = "getIssueComments"
    /\ logInv' = [logInv EXCEPT ![i] =
            AfterPage(LogCalled(@, "getIssueComments", TRUE),
                      CommentsPage(logInv[i].found[1][1], logInv[i].page))]
    /\ UNCHANGED <<batchInv, defaultLabels, idempotencyTtlDays, secrets, call, tableName, queueService, now, ticks, ledger, issues, comments,
                   queue, inv, claimer, expired, refInv>>

\* variant: updateLog returns after updateIssue, with the issue it updated
AfterUpdateIssue_NoClose(r) ==
    LogReturn(r, [kind |-> "updated", date |-> r.dateKey,
                  issue_number |-> r.found[1][1],
                  issue_url |-> Some(HtmlUrl(r.found[1][1]))])

\* after updateIssue returned: closeIssue
AfterUpdateIssue(r) == [r EXCEPT !.pc = "closeIssue"]

\* await this.github.updateIssue({ issueNumber: issue.number, body: newBody })
LogUpdateIssue(i) ==
    /\ logInv[i].pc = "updateIssue"
    /\ issues' = [issues EXCEPT ![logInv[i].found[1][1]].body = logInv[i].newBody]
    /\ logInv' = [logInv EXCEPT ![i] =
            AfterUpdateIssue(LogCalled(@, "updateIssue", TRUE))]
    /\ UNCHANGED <<batchInv, defaultLabels, idempotencyTtlDays, secrets, call, tableName, queueService, now, ticks, ledger, comments, queue,
                   inv, claimer, expired, refInv>>

\* the updated outcome: closed.number and closed.html_url
UpdatedOutcome(r, closed) ==
    [kind |-> "updated", date |-> r.dateKey, issue_number |-> closed.number,
     issue_url |-> closed.html_url]

\* const closed = await this.github.closeIssue({ issueNumber: issue.number })
LogCloseIssue(i) ==
    /\ logInv[i].pc = "closeIssue"
    /\ issues' = [issues EXCEPT ![logInv[i].found[1][1]].state = "closed"]
    /\ logInv' = [logInv EXCEPT ![i] =
            LogReturn(LogCalled(@, "closeIssue", TRUE),
                      UpdatedOutcome(@, IssueView(logInv[i].found[1][1], FALSE)))]
    /\ UNCHANGED <<batchInv, defaultLabels, idempotencyTtlDays, secrets, call, tableName, queueService, now, ticks, ledger, comments, queue,
                   inv, claimer, expired, refInv>>

\* the awaited calls of getLog and updateLog
LogCalls ==
    {"getInstallationToken", "findDailyIssue", "getIssueComments", "updateIssue",
     "closeIssue"}

\* variant: a rejected closeIssue puts the issue's former body back
LogCallFails_Rollback(i) ==
    /\ logInv[i].pc \in LogCalls
    /\ logInv' = [logInv EXCEPT ![i] =
            LogThrow(LogCalled(@, logInv[i].pc, FALSE), ErrorOf(logInv[i].pc))]
    /\ issues' = IF logInv[i].pc = "closeIssue"
                 THEN [issues EXCEPT ![logInv[i].found[1][1]].body = <<"o", "l", "d">>]
                 ELSE issues
    /\ UNCHANGED <<batchInv, defaultLabels, idempotencyTtlDays, secrets, call, tableName, queueService, now, ticks, ledger, comments,
                   queue, inv, claimer, expired, refInv>>

\* an awaited call rejects: nothing was changed by it, and the error propagates
LogCallFails(i) ==
    /\ logInv[i].pc \in LogCalls
    /\ logInv' = [logInv EXCEPT ![i] =
            LogThrow(LogCalled(@, logInv[i].pc, FALSE), ErrorOf(logInv[i].pc))]
    /\ UNCHANGED <<batchInv, defaultLabels, idempotencyTtlDays, secrets, call, tableName, queueService, now, ticks, ledger, issues, comments,
                   queue, inv, claimer, expired, refInv>>

LogNext ==
    \/ \E i \in LogInvs, d \in LogDates : GetLogStart(i, d)
    \/ \E i \in LogInvs, d \in LogDates, b \in NewBodies : UpdateLogStart(i, d, b)
    \/ \E i \in LogInvs : LogGetToken(i)
    \/ \E i \in LogInvs : LogFindIssue(i)
    \/ \E i \in LogInvs : LogGetPage(i)
    \/ \E i \in LogInvs : LogUpdateIssue(i)
    \/ \E i \in LogInvs : LogCloseIssue(i)
    \/ \E i \in LogInvs : LogCallFails(i)

LogSpec == LogInit /\ [][LogNext]_vars

\* getLog alone
PageNext ==
    \/ \E i \in LogInvs, d \in LogDates : GetLogStart(i, d)
    \/ \E i \in LogInvs : LogGetToken(i)
    \/ \E i \in LogInvs : LogFindIssue(i)
    \/ \E i \in LogInvs : LogGetPage(i)
    \/ \E i \in LogInvs : LogCallFails(i)

\* every page request of getIssueComments is answered or rejected: the loop
\* goes on as soon as its await settles
PageSpec ==
    LogInit /\ [][PageNext]_vars /\ \A i \in LogInvs : WF_vars(LogGetPage(i))

(***************************************************************************)
(* VoiceCommentRefinerService.refineComment, one step per awaited call.    *)
(***************************************************************************)
IsDigit(c) == c \in Range(DigitChar)

HeaderLen == 9       \* the length of "## HH:MM\n"

\* /^(## \d{2}:\d{2}\n)([\s\S]*)$/ matches body
MatchesHeader(body) ==
    /\ Len(body) >= HeaderLen
    /\ body[1] = "#" /\ body[2] = "#" /\ body[3] = " "
    /\ IsDigit(body[4]) /\ IsDigit(body[5])
    /\ body[6] = ":"
    /\ IsDigit(body[7]) /\ IsDigit(body[8])
    /\ body[9] = "\n"

\* variant: the content is handed on with its trailing whitespace
parseTimestampHeader_NoTrimEnd(body) ==
    IF MatchesHeader(body)
    THEN [header |-> SubSeq(body, 1, HeaderLen),
          content |-> SubSeq(body, HeaderLen + 1, Len(body))]
    ELSE [header |-> <<>>, content |-> body]

parseTimestampHeader(body) ==
    IF MatchesHeader(body)
    THEN [header |-> SubSeq(body, 1, HeaderLen),
          content |-> TrimEnd(SubSeq(body, HeaderLen + 1, Len(body)))]
    ELSE [header |-> <<>>, content |-> TrimEnd(body)]

\* variant: the header is not written back
NewBody_NoHeader(header, refined) == refined \o <<"\n">>

\* header ? `${header}${refined}\n` : `${refined}\n`
NewBody(header, refined) ==
    IF header # <<>> THEN header \o refined \o <<"\n">> ELSE refined \o <<"\n">>

\* the bodies of the comment the messages name
RefBodies ==
    { Some(<<"#", "#", " ", "2", "2", ":", "4", "5", "\n", "a", " ", "b", "\n">>),
      Some(<<"#", "#", " ", "0", "5", ":", "0", "0", "\n", "a", "\n", "b", " ", "\n", "\n">>),
      Some(<<"#", "#", " ", "2", "2", ":", "4", "5", "\n">>),
      Some(<<"#", "#", " ", "2", "2", ":", "4", "5">>),
      Some(<<"#", "#", " ", "1", ":", "3", "0", "\n", "a", "\n">>),
      Some(<<" ", "#", "#", " ", "2", "2", ":", "4", "5", "\n", "a", "\n">>),
      Some(<<"a", "\n", "#", "#", " ", "2", "2", ":", "4", "5", "\n", "b", "\t">>),
      Some(<<>>),
      None }

\* the texts the refiner may answer with (it throws rather than answer "")
RefinedTexts ==
    { <<"o", "k">>,
      <<"p", " ", "\n">>,
      <<"#", "#", " ", "1", "1", ":", "1", "1", "\n", "q">> }

\* the commentId of the messages; 999 names no comment
CommentIds == {101, 102, 999}

RefInit ==
    /\ tableName = None
    /\ queueService = FALSE
    /\ now = Now0
    /\ ticks = 0
    /\ ledger = [r \in RequestIds |-> None]
    /\ issues = <<Iss(1, Day15, "open", <<ThoughtlogLabel>>)>>
    /\ \E b \in RefBodies, p \in {q \in Payloads : q.source = Some("voice")},
          blank \in BOOLEAN :
          comments = <<Com(101, 1, b),
                       Com(102, 1, Some(formatEntry(
                           IF blank THEN [p EXCEPT !.raw = Some(<<" ">>)] ELSE p,
                           Now0)))>>
    /\ queue = <<>>
    /\ inv = [i \in Invs |-> IdleInv]
    /\ claimer = [r \in RequestIds |-> 0]
    /\ expired = {}
    /\ logInv = [i \in LogInvs |-> IdleLog]
    /\ refInv = [i \in RefInvs |-> IdleRef]
    /\ call = NoCall
    /\ secrets = NewProvider
    /\ idempotencyTtlDays = None
    /\ defaultLabels = DefaultLabelsCsv
    /\ batchInv = IdleBatch

\* the position of the comment with this id
CommentAt(id) == CHOOSE n \in DOMAIN comments : comments[n].id = id

\* getComment's answer: the comment as stored
GetComment(id) == comments[CommentAt(id)]

\* updateComment's effect: the body of the comment is replaced
PatchComment(id, body) == [comments EXCEPT ![CommentAt(id)].body = Some(body)]

\* refineComment(message) is called
RefStart(i, id) ==
    /\ refInv[i].pc = "idle"
    /\ \A j \in RefInvs : j < i => refInv[j].pc # "idle"
    /\ refInv' = [refInv EXCEPT ![i] =
            [@ EXCEPT !.pc = "getInstallationToken", !.commentId = id]]
    /\ UNCHANGED <<batchInv, defaultLabels, idempotencyTtlDays, secrets, call, tableName, queueService, now, ticks, ledger, issues, comments,
                   queue, inv, claimer, expired, logInv>>

\* const token = await this.auth.getInstallationToken()
RefGetToken(i) ==
    /\ refInv[i].pc = "getInstallationToken"
    /\ refInv' = [refInv EXCEPT ![i] =
            [LogCalled(@, "getInstallationToken", TRUE) EXCEPT !.pc = "getComment"]]
    /\ UNCHANGED <<batchInv, defaultLabels, idempotencyTtlDays, secrets, call, tableName, queueService, now, ticks, ledger, issues, comments,
                   queue, inv, claimer, expired, logInv>>

\* after getComment answered: body = comment.body ?? "", split into header and
\* content; the refiner is called next
AfterGetComment(r, comment) ==
    LET body   == IF comment.body = None THEN <<>> ELSE comment.body[1]
        parsed == parseTimestampHeader(body)
    IN  [r EXCEPT !.pc = "refine", !.fetched = Some(comment.body),
                  !.header = parsed.header, !.content = parsed.content]

\* const comment = await this.github.getComment(...)
RefGetComment(i) ==
    /\ refInv[i].pc = "getComment"
    /\ \E n \in DOMAIN comments : comments[n].id = refInv[i].commentId
    /\ refInv' = [refInv EXCEPT ![i] =
            AfterGetComment(LogCalled(@, "getComment", TRUE),
                            GetComment(refInv[i].commentId))]
    /\ UNCHANGED <<batchInv, defaultLabels, idempotencyTtlDays, secrets, call, tableName, queueService, now, ticks, ledger, issues, comments,
                   queue, inv, claimer, expired, logInv>>

\* const refined = await this.textRefiner.refine(content)
RefRefine(i, text) ==
    /\ refInv[i].pc = "refine"
    /\ refInv' = [refInv EXCEPT ![i] =
            [LogCalled(@, "refine", TRUE) EXCEPT !.pc = "updateComment",
                                                 !.refined = text]]
    /\ UNCHANGED <<batchInv, defaultLabels, idempotencyTtlDays, secrets, call, tableName, queueService, now, ticks, ledger, issues, comments,
                   queue, inv, claimer, expired, logInv>>

\* await this.github.updateComment({ ..., body: newBody, token })
RefUpdateComment(i) ==
    /\ refInv[i].pc = "updateComment"
    /\ comments' = PatchComment(refInv[i].commentId,
                                NewBody(refInv[i].header, refInv[i].refined))
    /\ refInv' = [refInv EXCEPT ![i] =
            [LogCalled(@, "updateComment", TRUE) EXCEPT !.pc = "done"]]
    /\ UNCHANGED <<batchInv, defaultLabels, idempotencyTtlDays, secrets, call, tableName, queueService, now, ticks, ledger, issues, queue, inv,
                   claimer, expired, logInv>>

\* the awaited calls of refineComment
RefCalls == {"getInstallationToken", "getComment", "refine", "updateComment"}

\* variant: a rejected refine is swallowed and the comment is rewritten with
\* its own content
RefCallFails_Fallback(i) ==
    /\ refInv[i].pc \in RefCalls
    /\ refInv' = [refInv EXCEPT ![i] =
            IF refInv[i].pc = "refine"
            THEN [LogCalled(@, "refine", FALSE) EXCEPT
                    !.pc = "updateComment", !.refined = refInv[i].content]
            ELSE [LogCalled(@, refInv[i].pc, FALSE) EXCEPT
                    !.pc = "done", !.thrown = Some(ErrorOf(refInv[i].pc))]]
    /\ UNCHANGED <<batchInv, defaultLabels, idempotencyTtlDays, secrets, call, tableName, queueService, now, ticks, ledger, issues, comments,
                   queue, inv, claimer, expired, logInv>>

\* an awaited call rejects: nothing was changed by it, and the error propagates
RefCallFails(i) ==
    /\ refInv[i].pc \in RefCalls
    /\ refInv' = [refInv EXCEPT ![i] =
            [LogCalled(@, refInv[i].pc, FALSE) EXCEPT
                !.pc = "done", !.thrown = Some(ErrorOf(refInv[i].pc))]]
    /\ UNCHANGED <<batchInv, defaultLabels, idempotencyTtlDays, secrets, call, tableName, queueService, now, ticks, ledger, issues, comments,
                   queue, inv, claimer, expired, logInv>>

RefNext ==
    \/ \E i \in RefInvs, id \in CommentIds : RefStart(i, id)
    \/ \E i \in RefInvs : RefGetToken(i)
    \/ \E i \in RefInvs : RefGetComment(i)
    \/ \E i \in RefInvs, text \in RefinedTexts : RefRefine(i, text)
    \/ \E i \in RefInvs : RefUpdateComment(i)
    \/ \E i \in RefInvs : RefCallFails(i)

RefineSpec == RefInit /\ [][RefNext]_vars

(***************************************************************************)
(* getDateKeyJst called on its own, over instants around the day's,        *)
(* month's and year's ends.                                                *)
(***************************************************************************)
\* the state in which a function is called on its own: nothing stored, the
\* clock at one of two instants
PureInit ==
    /\ tableName = None
    /\ queueService = FALSE
    /\ now \in {Now0, Now0 + TickStep}
    /\ ticks = 0
    /\ ledger = [r \in RequestIds |-> None]
    /\ issues = <<>>
    /\ comments = <<>>
    /\ queue = <<>>
    /\ inv = [i \in Invs |-> IdleInv]
    /\ claimer = [r \in RequestIds |-> 0]
    /\ expired = {}
    /\ logInv = [i \in LogInvs |-> IdleLog]
    /\ refInv = [i \in RefInvs |-> IdleRef]
    /\ call = NoCall
    /\ secrets = NewProvider
    /\ idempotencyTtlDays = None
    /\ defaultLabels = DefaultLabelsCsv
    /\ batchInv = IdleBatch

\* getDateKeyJst(payload)
GetDateKey(p) ==
    /\ call' = [fn |-> "getDateKeyJst", arg |-> p, res |-> getDateKeyJst(p, now)]
    /\ UNCHANGED <<batchInv, defaultLabels, idempotencyTtlDays, secrets, tableName, queueService, now, ticks, ledger, issues,
                   comments, queue, inv, claimer, expired, logInv, refInv>>

\* the payloads getDateKeyJst is called with: a captured_at (a day and a
\* time of day, UTC), or none
DateNext ==
    LET DateDays ==
            { <<2024, 1, 14>>, <<2024, 2, 28>>, <<2024, 2, 29>>, <<2023, 2, 28>>,
              <<2024, 3, 31>>, <<2024, 4, 30>>, <<2024, 6, 1>>, <<2023, 12, 31>>,
              <<2024, 12, 31>>, <<2000, 2, 28>>, <<2037, 12, 31>>, <<1970, 1, 1>>,
              <<1969, 12, 31>> }
        DateTimes ==
            { <<0, 0, 0>>, <<10, 0, 0>>, <<14, 59, 59>>, <<15, 0, 0>>, <<15, 0, 1>>,
              <<20, 0, 0>>, <<23, 59, 59>> }
        DateInputs ==
            { [captured_at |-> Some([y |-> dy[1], m |-> dy[2], d |-> dy[3],
                                     hh |-> tm[1], mi |-> tm[2], ss |-> tm[3]])] :
                dy \in DateDays, tm \in DateTimes }
            \cup { [captured_at |-> None] }
    IN  \E p \in DateInputs : GetDateKey(p)

DateSpec == PureInit /\ [][DateNext]_vars

(***************************************************************************)
(* parseLabels called on its own.                                          *)
(***************************************************************************)
\* parseLabels(defaultLabelsCsv, payloadLabels)
ParseLabels(csv, labels) ==
    /\ call' = [fn |-> "parseLabels", csv |-> csv, labels |-> labels,
                res |-> parseLabels(csv, labels)]
    /\ UNCHANGED <<batchInv, defaultLabels, idempotencyTtlDays, secrets, tableName, queueService, now, ticks, ledger, issues,
                   comments, queue, inv, claimer, expired, logInv, refInv>>

\* the defaultLabelsCsv arguments; the payloadLabels arguments: an array of
\* strings, or a value that is not an array (None)
LabelNext ==
    LET LabelCsvs ==
            { <<>>, <<"a">>, <<"a", ",", "b">>, <<" ", "a", " ", ",", " ", "b", " ">>,
              <<",", "a", ",", ",">>, <<"a", ",", "a">>, <<" ", ",", " ">>,
              <<"b", ",", "a">>, <<"a", " ", "b", ",", "c">>, ThoughtlogLabel }
        LabelArrays ==
            { None, Some(<<>>), Some(<<<<"a">>>>), Some(<<<<" ", "a", "\t">>>>),
              Some(<<<<"b">>, <<"c">>, <<"b">>, <<"a">>>>), Some(<<<<>>, <<" ">>>>),
              Some(<<<<"c">>, <<"a">>>>), Some(<<<<"a", ",", "b">>>>),
              Some(<<<<"A">>>>), Some(<<<<"c">>, <<" ", "c">>>>),
              Some(<<ThoughtlogLabel, <<"a">>>>) }
    IN  \E csv \in LabelCsvs, labels \in LabelArrays : ParseLabels(csv, labels)

LabelSpec == PureInit /\ [][LabelNext]_vars

(***************************************************************************)
(* formatEntry called on its own.                                          *)
(***************************************************************************)
\* formatEntry(payload)
FormatEntry(p) ==
    /\ call' = [fn |-> "formatEntry", arg |-> p, res |-> formatEntry(p, now)]
    /\ UNCHANGED <<batchInv, defaultLabels, idempotencyTtlDays, secrets, tableName, queueService, now, ticks, ledger, issues,
                   comments, queue, inv, claimer, expired, logInv, refInv>>

\* the captured_at arguments (times of 2024-01-14, UTC, or none), the raw
\* arguments and the kind arguments
FormatNext ==
    LET EntryTimes ==
            { Some([y |-> 2024, m |-> 1, d |-> 14,
                    hh |-> t[1], mi |-> t[2], ss |-> t[3]]) :
                t \in { <<0, 5, 0>>, <<10, 30, 0>>, <<14, 59, 59>>, <<15, 0, 0>>,
                        <<20, 0, 0>> } }
            \cup {None}
        EntryRaws ==
            { None, Some(<<>>), Some(<<"h", "i">>),
              Some(<<" ", "h", "i", "\t", "\n">>), Some(<<"a", "\n", " ", "b">>) }
        EntryKinds ==
            { None, Some(<<>>), Some(<<" ", "\t">>), Some(<<"i", "d", "e", "a">>),
              Some(<<" ", "t", "o", " ", "d", "o", " ">>) }
    IN  \E t \in EntryTimes, raw \in EntryRaws, kind \in EntryKinds :
            FormatEntry([captured_at |-> t, raw |-> raw, kind |-> kind])

FormatSpec == PureInit /\ [][FormatNext]_vars

-----------------------------------------------------------------------------
\* SecretsManagerSecretProvider: one cached secret string with an expiry.
\* Date.now() is the variable now, in milliseconds from the origin ClockStart.
\* A Lambda execution environment handles one event at a time and every
\* caller awaits the getter, so one access is in progress at a time.

MaxAccess == 4
MaxSecretTicks == 7
SecretTickStep == 100000
ClockStart == 1000

\* a provider constructed with the default ttl or with a shorter one
SecretInit ==
    /\ tableName = None
    /\ queueService = FALSE
    /\ now = ClockStart
    /\ ticks = 0
    /\ ledger = [r \in RequestIds |-> None]
    /\ issues = <<>>
    /\ comments = <<>>
    /\ queue = <<>>
    /\ inv = [i \in Invs |-> IdleInv]
    /\ claimer = [r \in RequestIds |-> 0]
    /\ expired = {}
    /\ logInv = [i \in LogInvs |-> IdleLog]
    /\ refInv = [i \in RefInvs |-> IdleRef]
    /\ call = NoCall
    /\ \E t \in {DEFAULT_TTL_MS, 2 * SecretTickStep} :
           secrets = [NewProvider EXCEPT !.ttlMs = t]
    /\ idempotencyTtlDays = None
    /\ defaultLabels = DefaultLabelsCsv
    /\ batchInv = IdleBatch

SecretUnchanged ==
    UNCHANGED <<batchInv, defaultLabels, idempotencyTtlDays, call, tableName, queueService, ledger, issues,
                comments, queue,
                inv, claimer, expired, logInv, refInv>>

\* parseSecrets and the two getters, applied to a raw secret string: the
\* value returned, or the error thrown
GetterOutcome(g, raw) ==
    IF ~raw.json
    THEN [result |-> None, thrown |-> Some("not valid JSON")]
    ELSE LET field == IF g = "getPrivateKeyPem" THEN raw.github_private_key
                      ELSE raw.openai_api_key
             name  == IF g = "getPrivateKeyPem" THEN "github_private_key"
                      ELSE "openai_api_key"
         IN  IF field = None
             THEN [result |-> None, thrown |-> Some(name)]
             ELSE [result |-> field, thrown |-> None]

CacheFresh_Inclusive(s, t) ==
    /\ s.cachedValue # None
    /\ t <= s.cacheExpiresAt

\* the test that opens fetchRaw
CacheFresh(s, t) ==
    /\ s.cachedValue # None
    /\ t < s.cacheExpiresAt

Settled(s, g, raw) ==
    [s.acc EXCEPT !.pc = "done", !.getter = g,
                  !.result = GetterOutcome(g, raw).result,
                  !.thrown = GetterOutcome(g, raw).thrown]

\* a getter is called: fetchRaw answers from the cache, or sends the request
SecretAccess(g) ==
    /\ secrets.acc.pc \in {"idle", "done"}
    /\ secrets.accesses < MaxAccess
    /\ secrets' =
         IF CacheFresh(secrets, now)
         THEN [secrets EXCEPT
                 !.accesses = @ + 1,
                 !.acc = [Settled(secrets, g, secrets.cachedValue[1])
                            EXCEPT !.contacts = 0]]
         ELSE [secrets EXCEPT
                 !.accesses = @ + 1,
                 !.sends = @ + 1,
                 !.acc = [pc |-> "send", getter |-> g, result |-> None,
                          thrown |-> None, contacts |-> 1]]
    /\ UNCHANGED <<now, ticks>>
    /\ SecretUnchanged

\* the store answers with a secret string: it is cached and the getter ends
SecretSendReturns(v) ==
    /\ secrets.acc.pc = "send"
    /\ secrets' = [secrets EXCEPT
                     !.cachedValue = Some(v),
                     !.cacheExpiresAt = now + secrets.ttlMs,
                     !.acc = Settled(secrets, secrets.acc.getter, v)]
    /\ UNCHANGED <<now, ticks>>
    /\ SecretUnchanged

\* the store answers without a SecretString: fetchRaw throws
SecretSendEmpty ==
    /\ secrets.acc.pc = "send"
    /\ secrets' = [secrets EXCEPT
                     !.acc = [@ EXCEPT !.pc = "done",
                                       !.thrown = Some("has no SecretString")]]
    /\ UNCHANGED <<now, ticks>>
    /\ SecretUnchanged

\* the request to the store fails: the rejection leaves fetchRaw
SecretSendFails ==
    /\ secrets.acc.pc = "send"
    /\ secrets' = [secrets EXCEPT
                     !.acc = [@ EXCEPT !.pc = "done",
                                       !.thrown = Some("send")]]
    /\ UNCHANGED <<now, ticks>>
    /\ SecretUnchanged

\* time passes, between accesses or while a request is awaited
SecretTick ==
    /\ ticks < MaxSecretTicks
    /\ ticks' = ticks + 1
    /\ now' = now + SecretTickStep
    /\ UNCHANGED secrets
    /\ SecretUnchanged

\* either getter may be called; what the store may hold in SecretString: json
\* tells whether it parses, the keys are the fields of AppSecrets (None when
\* absent)
SecretNext ==
    \/ \E g \in {"getPrivateKeyPem", "getOpenAiApiKey"} : SecretAccess(g)
    \/ \E v \in [json : {TRUE}, github_private_key : {None, Some("pem1"), Some("pem2")},
                 openai_api_key : {None, Some("sk1")}]
                \cup {[json |-> FALSE, github_private_key |-> None,
                       openai_api_key |-> None]} :
           SecretSendReturns(v)
    \/ SecretSendEmpty
    \/ SecretSendFails
    \/ SecretTick

SecretSpec == SecretInit /\ [][SecretNext]_vars

-----------------------------------------------------------------------------
\* ThoughtLogRouter.handle, called on a LambdaHttpRequest with a service that
\* answers each operation in a given way.  A request body is described by what
\* JSON.parse makes of it: json is "absent" (no body), "empty" (the empty
\* string), "malformed", "null", "scalar" or "object", and an object has its
\* request_id and raw (None when absent).

HTTP_STATUS ==
    [OK |-> 200, CREATED |-> 201, BAD_REQUEST |-> 400, NOT_FOUND |-> 404,
     METHOD_NOT_ALLOWED |-> 405, INTERNAL_SERVER_ERROR |-> 500]

\* LambdaHttpRequest.getPayload: the parsed body, {} without a body, or the
\* SyntaxError of JSON.parse
getPayload(body) ==
    IF body.json = "absent"
    THEN [ok |-> TRUE, value |-> [body EXCEPT !.json = "object"]]
    ELSE IF body.json \in {"empty", "malformed"} THEN [ok |-> FALSE]
    ELSE [ok |-> TRUE, value |-> body]

\* handle(request): the response, whether handle threw instead, and the call
\* made to the service, if any.  A property read of null is a TypeError
\* outside every try block.
handle(req, svc) ==
    LET resp(status, body, called) ==
            [thrown |-> FALSE, statusCode |-> status, contentType |-> None,
             body |-> body, called |-> called]
        typeError ==
            [thrown |-> TRUE, statusCode |-> 0, contentType |-> None,
             body |-> [ok |-> FALSE, error |-> "TypeError"], called |-> None]
        caught(out, called) ==
            resp(HTTP_STATUS.INTERNAL_SERVER_ERROR,
                 [ok |-> FALSE, error |-> out.error], called)
        notFound(out, called) ==
            resp(HTTP_STATUS.NOT_FOUND,
                 [ok |-> FALSE, error |-> "not_found", date |-> out.date], called)
        invalidJson ==
            resp(HTTP_STATUS.BAD_REQUEST,
                 [ok |-> FALSE, error |-> "invalid_json"], None)
        orEmpty(v) == IF v = None THEN <<>> ELSE v[1]
        \* the PUT branch's own parse: decodedBody ? JSON.parse(decodedBody) : {}
        parseRawBody(body) ==
            IF body.json \in {"absent", "empty"}
            THEN [ok |-> TRUE, value |-> [body EXCEPT !.json = "object"]]
            ELSE IF body.json = "malformed" THEN [ok |-> FALSE]
            ELSE [ok |-> TRUE, value |-> body]
    IN
    IF req.method = "GET" /\ req.dateParam # None
    THEN LET called == Some([op |-> "getLog", dateKey |-> req.dateParam[1]])
             out    == svc.getLog
         IN  IF out.kind = "throw" THEN caught(out, called)
             ELSE IF out.kind = "not_found" THEN notFound(out, called)
             ELSE [thrown |-> FALSE, statusCode |-> HTTP_STATUS.OK,
                   contentType |-> Some("text/plain; charset=utf-8"),
                   body |-> out.body, called |-> called]
    ELSE IF req.method = "PUT" /\ req.dateParam # None
    THEN LET parsed == parseRawBody(req.body) IN
         IF ~parsed.ok THEN invalidJson
         ELSE IF parsed.value.json = "null" THEN typeError
         ELSE LET newBody == Trim(orEmpty(parsed.value.raw))
                  called  == Some([op |-> "updateLog", dateKey |-> req.dateParam[1],
                                   newBody |-> newBody])
                  out     == svc.updateLog
              IN  IF newBody = <<>>
                  THEN resp(HTTP_STATUS.BAD_REQUEST,
                            [ok |-> FALSE, error |-> "missing_body"], None)
                  ELSE IF out.kind = "throw" THEN caught(out, called)
                  ELSE IF out.kind = "not_found" THEN notFound(out, called)
                  ELSE resp(HTTP_STATUS.OK,
                            [ok |-> TRUE, date |-> out.date,
                             issue_number |-> out.issue_number,
                             issue_url |-> out.issue_url], called)
    ELSE IF req.method # "POST"
    THEN resp(HTTP_STATUS.METHOD_NOT_ALLOWED,
              [ok |-> FALSE, error |-> "method_not_allowed"], None)
    ELSE LET parsed == getPayload(req.body) IN
         IF ~parsed.ok THEN invalidJson
         ELSE IF parsed.value.json = "null" THEN typeError
         ELSE LET requestId == Trim(orEmpty(parsed.value.request_id))
                  called    == Some([op |-> "createEntry", payload |-> parsed.value])
                  out       == svc.createEntry
              IN  IF requestId = <<>>
                  THEN resp(HTTP_STATUS.BAD_REQUEST,
                            [ok |-> FALSE, error |-> "missing_request_id"], None)
                  ELSE IF out.kind = "throw" THEN caught(out, called)
                  ELSE IF out.kind = "idempotent"
                  THEN resp(out.statusCode, out.body, called)
                  ELSE resp(HTTP_STATUS.CREATED,
                            [ok |-> TRUE, date |-> out.date,
                             issue_number |-> out.issue_number,
                             issue_url |-> out.issue_url,
                             comment_id |-> out.comment_id], called)

\* router.handle(request) on a router built over the service svc
RouterHandle(req, svc) ==
    /\ call' = [fn |-> "handle", req |-> req, svc |-> svc, res |-> handle(req, svc)]
    /\ UNCHANGED <<batchInv, defaultLabels, idempotencyTtlDays, secrets, tableName, queueService, now, ticks, ledger, issues,
                   comments, queue, inv, claimer, expired, logInv, refInv>>

\* the requests: method, date parameter of the path and body; the services:
\* one outcome for each operation, a thrown Error (its message) or a thrown
\* value that is not an Error among them
RouterNext ==
    LET Body(json, id, raw) == [json |-> json, request_id |-> id, raw |-> raw]
        Bodies ==
            { Body(j, None, None) :
                j \in {"absent", "empty", "malformed", "null", "scalar"} }
            \cup { Body("object", id, raw) :
                     id \in {None, Some(<<" ", "\t">>), Some(<<" ", "r", "1", " ">>)},
                     raw \in {None, Some(<<" ", "\n">>), Some(<<"h", "i", " ">>)} }
        Requests ==
            [method : {"GET", "PUT", "POST", "DELETE"},
             dateParam : {None, Some(Day15)},
             body : Bodies]
            \ {q \in [method : {"GET", "DELETE"}, dateParam : {None, Some(Day15)},
                       body : Bodies] : q.body.json # "absent"}
        Throws == { [kind |-> "throw", error |-> e] : e \in {"boom", "String(e)"} }
        Created201 ==
            [kind |-> "created", date |-> Day15, issue_number |-> 1,
             issue_url |-> HtmlUrl(1), comment_id |-> 101]
        Idempotent(c) ==
            [kind |-> "idempotent", statusCode |-> c,
             body |-> [ok |-> c # 409, idempotent |-> TRUE]]
        Found == [kind |-> "found", body |-> <<"h", "i">>]
        NotFound == [kind |-> "not_found", date |-> Day15]
        Updated ==
            [kind |-> "updated", date |-> Day15, issue_number |-> 1,
             issue_url |-> HtmlUrl(1)]
        Service(c, g, u) == [createEntry |-> c, getLog |-> g, updateLog |-> u]
        Services ==
            { Service(Created201, Found, Updated),
              Service(Idempotent(200), NotFound, NotFound),
              Service(Idempotent(202), Found, NotFound),
              Service(Idempotent(409), NotFound, Updated) }
            \cup { Service(t, t, t) : t \in Throws }
    IN  \E req \in Requests, svc \in Services : RouterHandle(req, svc)

RouterSpec == PureInit /\ [][RouterNext]_vars

-----------------------------------------------------------------------------
\* The service called by one request at a time: createEntry, getLog and
\* updateLog invocations that do not overlap, on a repository that starts
\* without issues, with no ledger table and no queue configured (so that
\* every createEntry goes on to the tracker and returns after markDone) and
\* under a default label list with or without "thoughtlog".  The requests are
\* for one day: the payloads carry a captured_at of that day, with and without
\* a label "thoughtlog" of their own.

SeqInit ==
    /\ tableName = None
    /\ queueService = FALSE
    /\ now = Now0
    /\ ticks = 0
    /\ ledger = [r \in RequestIds |-> None]
    /\ issues = <<>>
    /\ comments = <<>>
    /\ queue = <<>>
    /\ inv = [i \in Invs |-> IdleInv]
    /\ claimer = [r \in RequestIds |-> 0]
    /\ expired = {}
    /\ logInv = [i \in LogInvs |-> IdleLog]
    /\ refInv = [i \in RefInvs |-> IdleRef]
    /\ call = NoCall
    /\ secrets = NewProvider
    /\ idempotencyTtlDays = None
    /\ defaultLabels \in {DefaultLabelsCsv, <<"j">>}
    /\ batchInv = IdleBatch

SeqNext ==
    LET Quiet == /\ \A j \in Invs : ~InFlight(j)
                 /\ \A j \in LogInvs : logInv[j].pc \in {"idle", "done"}
    IN  \/ \E i \in Invs,
                 p \in {q \in Payloads : RequestIdOf(q) # <<>> /\ q.source # None} :
              Quiet /\ Start(i, p)
        \/ \E i \in LogInvs : Quiet /\ GetLogStart(i, Day15)
        \/ \E i \in LogInvs, b \in NewBodies : Quiet /\ UpdateLogStart(i, Day15, b)
        \/ \E i \in Invs : ClaimDisabled(i)
        \/ \E i \in Invs : CallFails(i)
        \/ \E i \in Invs : GetToken(i)
        \/ \E i \in Invs : FindIssue(i)
        \/ \E i \in Invs : CreateIssue(i)
        \/ \E i \in Invs : GetIssue(i)
        \/ \E i \in Invs : AddComment(i)
        \/ \E i \in Invs : MarkDone(i)
        \/ \E i \in Invs : MarkFailed(i)
        \/ \E i \in LogInvs : LogGetToken(i)
        \/ \E i \in LogInvs : LogFindIssue(i)
        \/ \E i \in LogInvs : LogGetPage(i)
        \/ \E i \in LogInvs : LogUpdateIssue(i)
        \/ \E i \in LogInvs : LogCloseIssue(i)
        \/ \E i \in LogInvs : LogCallFails(i)

SeqSpec == SeqInit /\ [][SeqNext]_vars

(***************************************************************************)
(* The queue handler: one invocation per batch of records.  A record body  *)
(* is None when it is not JSON text and Some(id) when it is the JSON of a  *)
(* message that names comment id.  The refineComment call of the record in *)
(* hand runs in the frame refInv[1]; the handler's log keeps, per record   *)
(* taken, whether it went through and what was written.                    *)
(***************************************************************************)
MaxBatch == 3

QueueInit ==
    /\ tableName = None
    /\ queueService = FALSE
    /\ now = Now0
    /\ ticks = 0
    /\ ledger = [r \in RequestIds |-> None]
    /\ issues = <<Iss(1, Day15, "open", <<ThoughtlogLabel>>)>>
    /\ \E p \in {q \in Payloads : q.source = Some("voice")} :
          comments = <<Com(101, 1, Some(<<"#", "#", " ", "2", "2", ":", "4", "5", "\n", "a", " ", "b", "\n">>)),
                       Com(102, 1, Some(formatEntry(p, Now0)))>>
    /\ queue = <<>>
    /\ inv = [i \in Invs |-> IdleInv]
    /\ claimer = [r \in RequestIds |-> 0]
    /\ expired = {}
    /\ logInv = [i \in LogInvs |-> IdleLog]
    /\ refInv = [i \in RefInvs |-> IdleRef]
    /\ call = NoCall
    /\ secrets = NewProvider
    /\ idempotencyTtlDays = None
    /\ defaultLabels = DefaultLabelsCsv
    /\ batchInv = IdleBatch

\* handler(event) is called with event.Records = records
QueueStart(records) ==
    /\ batchInv.pc = "idle"
    /\ batchInv' = [batchInv EXCEPT !.pc = "loop", !.records = records]
    /\ UNCHANGED <<defaultLabels, idempotencyTtlDays, secrets, call, tableName, queueService, now, ticks, ledger, issues, comments,
                   queue, inv, claimer, expired, logInv, refInv>>

\* for (const record of event.Records): the next record is taken and its body
\* parsed; a body that does not parse makes the handler throw, otherwise
\* refineComment(message) is called; after the last record the handler returns
QueueTake ==
    /\ batchInv.pc = "loop"
    /\ IF batchInv.k = Len(batchInv.records)
       THEN /\ batchInv' = [batchInv EXCEPT !.pc = "done"]
            /\ UNCHANGED refInv
       ELSE LET k    == batchInv.k + 1
                body == batchInv.records[k]
            IN  IF body = None
                THEN /\ batchInv' = [batchInv EXCEPT
                            !.pc = "done", !.k = k,
                            !.thrown = Some(ErrorOf("JSON.parse")),
                            !.log = Append(@, [rec |-> k, ok |-> FALSE,
                                               commentId |-> 0, body |-> <<>>])]
                     /\ UNCHANGED refInv
                ELSE /\ batchInv' = [batchInv EXCEPT !.pc = "await", !.k = k]
                     /\ refInv' = [refInv EXCEPT ![1] =
                            [IdleRef EXCEPT !.pc = "getInstallationToken",
                                            !.commentId = body[1]]]
    /\ UNCHANGED <<defaultLabels, idempotencyTtlDays, secrets, call, tableName, queueService, now, ticks, ledger, issues, comments,
                   queue, inv, claimer, expired, logInv>>

\* variant: a rejected refineComment is logged and the loop goes on
QueueResume_Continue ==
    /\ batchInv.pc = "await"
    /\ refInv[1].pc = "done"
    /\ batchInv' = [batchInv EXCEPT
            !.pc = "loop",
            !.log = Append(@, [rec |-> batchInv.k, ok |-> refInv[1].thrown = None,
                               commentId |-> refInv[1].commentId,
                               body |-> NewBody(refInv[1].header,
                                                refInv[1].refined)])]
    /\ UNCHANGED <<defaultLabels, idempotencyTtlDays, secrets, call, tableName, queueService, now, ticks, ledger, issues, comments,
                   queue, inv, claimer, expired, logInv, refInv>>

\* await refiner.refineComment(message) settles: a rejection leaves the
\* handler, a return goes on with the loop
QueueResume ==
    /\ batchInv.pc = "await"
    /\ refInv[1].pc = "done"
    /\ batchInv' =
          IF refInv[1].thrown # None
          THEN [batchInv EXCEPT
                  !.pc = "done", !.thrown = refInv[1].thrown,
                  !.log = Append(@, [rec |-> batchInv.k, ok |-> FALSE,
                                     commentId |-> refInv[1].commentId,
                                     body |-> <<>>])]
          ELSE [batchInv EXCEPT
                  !.pc = "loop",
                  !.log = Append(@, [rec |-> batchInv.k, ok |-> TRUE,
                                     commentId |-> refInv[1].commentId,
                                     body |-> NewBody(refInv[1].header,
                                                      refInv[1].refined)])]
    /\ UNCHANGED <<defaultLabels, idempotencyTtlDays, secrets, call, tableName, queueService, now, ticks, ledger, issues, comments,
                   queue, inv, claimer, expired, logInv, refInv>>

\* the batches delivered: up to MaxBatch records, each not JSON or naming
\* comment 101, 102 or a comment that does not exist
QueueNext ==
    LET Bodies  == {None} \cup {Some(id) : id \in CommentIds}
        Batches == UNION {[1..n -> Bodies] : n \in 0..MaxBatch}
    IN  \/ \E records \in Batches : QueueStart(records)
        \/ QueueTake
        \/ QueueResume
        \/ RefGetToken(1)
        \/ RefGetComment(1)
        \/ \E text \in RefinedTexts : RefRefine(1, text)
        \/ RefUpdateComment(1)
        \/ RefCallFails(1)

QueueSpec == QueueInit /\ [][QueueNext]_vars

(***************************************************************************)
(* Vocabulary of the properties.                                           *)
(***************************************************************************)
LedgerOn == tableName # None

\* the invocation obtained claimed: true from an enabled ledger
ClaimedTrue(r) == r.idem # None /\ r.idem[1].enabled /\ r.idem[1].claimed

Ops(r) == {r.calls[k].op : k \in DOMAIN r.calls}

CountOp(r, op) == Cardinality({k \in DOMAIN r.calls : r.calls[k].op = op})

Finished(r) == r.pc = "done"

Returned(r) == r.pc = "done" /\ r.outcome # None

\* the invocation made no call but claim
OnlyClaim(r) == Ops(r) \subseteq {"claim"}

\* a finished invocation that did not claim returned an idempotent outcome; the
\* one exception is claim's own store call rejecting, which createEntry throws
IdempotentOrStoreError(r) ==
    Finished(r) =>
        \/ r.outcome # None /\ r.outcome[1].kind = "idempotent"
        \/ r.thrown = Some(ErrorOf("claim"))

SameRequest(rid) == {i \in Invs : inv[i].requestId = rid}

AddCommentCalls(rid) ==
    UNION {{<<i, k>> : k \in {n \in DOMAIN inv[i].calls : inv[i].calls[n].op = "addComment"}} :
           i \in SameRequest(rid)}

(* C1: with the ledger enabled and no record of the request_id purged, among
   the invocations sharing a request_id at most one obtains claimed: true and
   addComment is called at most once; every other invocation makes no call but
   claim and, when claim answered, returns an idempotent outcome. *)
C1_SingleClaimer ==
    LedgerOn =>
        \A rid \in RequestIds \ expired :
            /\ Cardinality({i \in SameRequest(rid) : ClaimedTrue(inv[i])}) <= 1
            /\ Cardinality(AddCommentCalls(rid)) <= 1
            /\ \A i \in SameRequest(rid) :
                  ~ClaimedTrue(inv[i]) => OnlyClaim(inv[i]) /\ IdempotentOrStoreError(inv[i])

\* two overlapping invocations of one request_id: one created, one idempotent
C1_Witness ==
    /\ LedgerOn
    /\ \E i, j \in Invs :
          /\ i # j
          /\ inv[i].requestId = inv[j].requestId
          /\ inv[i].requestId \notin expired
          /\ i \notin inv[j].prior /\ j \notin inv[i].prior
          /\ Returned(inv[i]) /\ inv[i].outcome[1].kind = "created"
          /\ Returned(inv[j]) /\ inv[j].outcome[1].kind = "idempotent"

\* the idempotent 200 outcome replaying the created outcome c
ReplayOf(c) ==
    [kind |-> "idempotent", statusCode |-> 200,
     body |-> [ok |-> TRUE, idempotent |-> TRUE,
               issue_number |-> Some(c.issue_number), issue_url |-> c.issue_url,
               comment_id |-> Some(c.comment_id)]]

\* j was called after i had returned created, with the same request_id and the
\* same hashed content, and the record has not been purged
ReplayPair(i, j) ==
    /\ i \in inv[j].prior
    /\ inv[i].requestId = inv[j].requestId
    /\ inv[i].requestId \notin expired
    /\ inv[i].payloadHash = inv[j].payloadHash
    /\ Returned(inv[i]) /\ inv[i].outcome[1].kind = "created"

(* C2: with the ledger enabled, a createEntry called after another one with
   the same request_id and the same content (dateKey, entry, labels) returned
   created, the record still being in the table, returns idempotent 200 with the
   first call's issue_number, issue_url and comment_id, and makes no call but
   claim. *)
C2_SequentialReplay ==
    LedgerOn =>
        \A i, j \in Invs :
            ReplayPair(i, j) =>
                /\ OnlyClaim(inv[j])
                /\ Returned(inv[j]) => inv[j].outcome[1] = ReplayOf(inv[i].outcome[1])
                /\ inv[j].thrown # None => inv[j].thrown = Some(ErrorOf("claim"))

C2_Witness ==
    /\ LedgerOn
    /\ \E i, j \in Invs :
          /\ ReplayPair(i, j)
          /\ Returned(inv[j])
          /\ inv[j].outcome[1].statusCode = 200

\* when createEntry was called the table held an item of the request_id whose
\* payload_hash differs from the call's, and no item of it has been purged
CalledWithOtherHash(r) ==
    /\ r.seen # None
    /\ r.seen[1].payload_hash # None
    /\ r.seen[1].payload_hash[1] # r.payloadHash
    /\ r.requestId \notin expired

ReusedOutcome ==
    [kind |-> "idempotent", statusCode |-> 409,
     body |-> [ok |-> FALSE, error |-> "request_id_reused_with_different_payload"]]

(* C3: a createEntry called while a record of its request_id exists with a
   different payload_hash returns idempotent 409
   request_id_reused_with_different_payload, whatever the record's status, and
   makes no call but claim. *)
C3_ReuseRejected ==
    LedgerOn =>
        \A j \in Invs :
            CalledWithOtherHash(inv[j]) =>
                /\ OnlyClaim(inv[j])
                /\ Returned(inv[j]) => inv[j].outcome[1] = ReusedOutcome
                /\ inv[j].thrown # None => inv[j].thrown = Some(ErrorOf("claim"))

\* the rejected call found the record in status failed
C3_Witness ==
    /\ LedgerOn
    /\ \E j \in Invs :
          /\ CalledWithOtherHash(inv[j])
          /\ inv[j].seen[1].status = "failed"
          /\ Returned(inv[j])
          /\ inv[j].outcome[1] = ReusedOutcome

\* when createEntry was called the record of its request_id was failed and had
\* the call's payload_hash, and no item of the request_id has been purged
CalledOnFailed(r) ==
    /\ r.seen # None
    /\ r.seen[1].status = "failed"
    /\ r.seen[1].payload_hash = Some(r.payloadHash)
    /\ r.requestId \notin expired

StillFailedOutcome ==
    [kind |-> "idempotent", statusCode |-> 202,
     body |-> [ok |-> TRUE, idempotent |-> TRUE, status |-> "failed"]]

C4_ReplayOfFailed ==
    LedgerOn =>
        \A j \in Invs :
            CalledOnFailed(inv[j]) =>
                /\ OnlyClaim(inv[j])
                /\ Returned(inv[j]) => inv[j].outcome[1] = StillFailedOutcome
                /\ inv[j].thrown # None => inv[j].thrown = Some(ErrorOf("claim"))

C4_FailedStays ==
    \A rid \in RequestIds :
        (ledger[rid] # None /\ ledger[rid][1].status = "failed" /\ ledger'[rid] # None)
            => ledger'[rid][1].status = "failed"

(* C4: once a record is failed, every later createEntry with its request_id
   and the same content returns idempotent 202 with status failed and makes no
   call but claim, as long as the record is in the table; while it is there no
   step moves it to processing or to done. *)
C4_FailedIsStuck == []C4_ReplayOfFailed /\ [][C4_FailedStays]_vars

C4_Witness ==
    /\ LedgerOn
    /\ \E j \in Invs :
          /\ CalledOnFailed(inv[j])
          /\ Returned(inv[j])
          /\ inv[j].outcome[1] = StillFailedOutcome

\* the step is a step of invocation i out of the await it was at
StepOf(i) == inv'[i].pc # inv[i].pc

\* what one step may do to the record of rid: a record appears as processing,
\* and a status changes only from processing, to done by the creator's markDone
\* or to failed by the creator's markFailed
C5_Transition(rid) ==
    LET a == ledger[rid]
        b == ledger'[rid]
    IN  /\ (a = None /\ b # None) => b[1].status = "processing"
        /\ (a # None /\ b # None /\ a[1].status # b[1].status) =>
              /\ a[1].status = "processing"
              /\ claimer[rid] \in Invs
              /\ inv[claimer[rid]].requestId = rid
              /\ ClaimedTrue(inv[claimer[rid]])
              /\ StepOf(claimer[rid])
              /\ \/ inv[claimer[rid]].pc = "markDone" /\ b[1].status = "done"
                 \/ inv[claimer[rid]].pc = "markFailed" /\ b[1].status = "failed"

(* C5: a record's status changes only from processing to done or from
   processing to failed, and only in the markDone or markFailed of the
   invocation whose claim created the record; done and failed are never left
   while the record is in the table, so the change happens at most once. *)
C5_StatusMoves == [][\A rid \in RequestIds : C5_Transition(rid)]_vars

\* one record was moved to done and another to failed, each by its creator
C5_Witness ==
    /\ LedgerOn
    /\ \E r1, r2 \in RequestIds :
          /\ ledger[r1] # None /\ ledger[r1][1].status = "done"
          /\ ledger[r2] # None /\ ledger[r2][1].status = "failed"
          /\ claimer[r1] \in Invs /\ Finished(inv[claimer[r1]])
          /\ claimer[r2] \in Invs /\ Finished(inv[claimer[r2]])

\* the result fields and the payload_hash of a done record, and its status
ResultOf(item) ==
    <<item[1].status, item[1].issue_number, item[1].issue_url, item[1].comment_id,
      item[1].payload_hash>>

C6_DoneKept ==
    \A rid \in RequestIds :
        (ledger[rid] # None /\ ledger[rid][1].status = "done" /\ ledger'[rid] # None)
            => ResultOf(ledger'[rid]) = ResultOf(ledger[rid])

\* when createEntry was called the record of its request_id was done and had
\* the call's payload_hash, and no item of the request_id has been purged
CalledOnDone(r) ==
    /\ r.seen # None
    /\ r.seen[1].status = "done"
    /\ r.seen[1].payload_hash = Some(r.payloadHash)
    /\ r.requestId \notin expired

C6_ReplaySame ==
    LedgerOn =>
        \A j \in Invs :
            (CalledOnDone(inv[j]) /\ Returned(inv[j])) =>
                /\ inv[j].outcome[1].kind = "idempotent"
                /\ inv[j].outcome[1].statusCode = 200
                /\ inv[j].outcome[1].body.issue_number = inv[j].seen[1].issue_number
                /\ inv[j].outcome[1].body.issue_url = inv[j].seen[1].issue_url
                /\ inv[j].outcome[1].body.comment_id = inv[j].seen[1].comment_id

(* C6: once a record is done, no step changes its issue_number, issue_url,
   comment_id, payload_hash or status while it is in the table, and every
   createEntry called on it with the same content returns the fields that were
   recorded. *)
C6_DoneIsTerminal == []C6_ReplaySame /\ [][C6_DoneKept]_vars

\* a replay of a done record returned while the record is still as it was seen
C6_Witness ==
    /\ LedgerOn
    /\ \E j \in Invs :
          /\ CalledOnDone(inv[j])
          /\ Returned(inv[j])
          /\ ledger[inv[j].requestId] = inv[j].seen
          /\ inv[j].seen[1].issue_url = Some(HtmlUrl(inv[j].seen[1].issue_number[1]))

\* the invocation's markFailed was rejected by the store (and swallowed)
MarkFailedRejected(r) ==
    \E k \in DOMAIN r.calls : r.calls[k].op = "markFailed" /\ ~r.calls[k].ok

\* the invocation claimed with the ledger enabled, has finished, and the
\* record its claim created is the one in the table
ClaimedAndFinished(i) ==
    /\ ClaimedTrue(inv[i])
    /\ Finished(inv[i])
    /\ claimer[inv[i].requestId] = i

(* C7 as stated: every invocation that claimed and finished leaves the record
   done or failed, never processing, whichever call failed. *)
C7_AsStated ==
    LedgerOn =>
        \A i \in Invs :
            ClaimedAndFinished(i) =>
                /\ ledger[inv[i].requestId] # None
                /\ ledger[inv[i].requestId][1].status \in {"done", "failed"}

(* C7: every invocation that claimed and finished leaves the record done when
   it returns and failed when it throws, except when the store rejected
   markFailed's own write: then the record is left in processing. *)
C7_ClaimedEndsSettled ==
    LedgerOn =>
        \A i \in Invs :
            ClaimedAndFinished(i) =>
                /\ ledger[inv[i].requestId] # None
                /\ ledger[inv[i].requestId][1].status =
                     IF Returned(inv[i]) THEN "done"
                     ELSE IF MarkFailedRejected(inv[i]) THEN "processing"
                     ELSE "failed"

\* the ledger write markDone failed and markFailed then recorded the failure
C7_Witness ==
    /\ LedgerOn
    /\ \E i \in Invs :
          /\ ClaimedAndFinished(i)
          /\ \E k \in DOMAIN inv[i].calls :
                inv[i].calls[k].op = "markDone" /\ ~inv[i].calls[k].ok
          /\ ~MarkFailedRejected(inv[i])
          /\ ledger[inv[i].requestId][1].status = "failed"
          /\ ledger[inv[i].requestId][1].error = Some(Slice(ErrorOf("markDone").message, MaxErrorLen))

\* the invocation's call of op was rejected
Rejected(r, op) == \E k \in DOMAIN r.calls : r.calls[k].op = op /\ ~r.calls[k].ok

\* the calls the invocation made after its first call of op
CallsAfter(r, op) ==
    LET k == CHOOSE n \in DOMAIN r.calls : r.calls[n].op = op /\
                 \A m \in DOMAIN r.calls : r.calls[m].op = op => n <= m
    IN  SubSeq(r.calls, k + 1, Len(r.calls))

(* C8: when getInstallationToken, findDailyIssue, createDailyIssue, getIssue or
   addComment is rejected, the call is not made again, markDone and sendMessage
   are never called, the only call that follows is one markFailed, given the
   error's message, and createEntry then throws the error itself. *)
C8_FailureMarksAndRethrows ==
    \A i \in Invs : \A op \in TryCalls :
        Rejected(inv[i], op) =>
            /\ inv[i].idem # None /\ inv[i].idem[1].claimed
            /\ CountOp(inv[i], op) = 1
            /\ "markDone" \notin Ops(inv[i])
            /\ "sendMessage" \notin Ops(inv[i])
            /\ inv[i].pc \in {"markFailed", "done"}
            /\ inv[i].err = Some(ErrorOf(op))
            /\ inv[i].outcome = None
            /\ inv[i].pc = "markFailed" =>
                  CallsAfter(inv[i], op) = <<>> /\ inv[i].thrown = None
            /\ inv[i].pc = "done" =>
                  /\ Len(CallsAfter(inv[i], op)) = 1
                  /\ CallsAfter(inv[i], op)[1].op = "markFailed"
                  /\ inv[i].mfArg = Some(ErrorOf(op).message)
                  /\ inv[i].thrown = Some(ErrorOf(op))

\* addComment was rejected with a message longer than the ledger keeps, and
\* the caller got that error
C8_Witness ==
    \E i \in Invs :
        /\ Rejected(inv[i], "addComment")
        /\ Finished(inv[i])
        /\ CountOp(inv[i], "markFailed") = 1
        /\ inv[i].thrown = Some(ErrorOf("addComment"))
        /\ LedgerOn
        /\ ledger[inv[i].requestId] # None
        /\ ledger[inv[i].requestId][1].error = Some([text |-> "addComment", len |-> MaxErrorLen])

\* the step in which invocation i comes out of markFailed: createEntry throws
\* the error it caught, and a rejected write leaves the table as it was
C9_Step(i) ==
    (inv[i].pc = "markFailed" /\ StepOf(i)) =>
        /\ inv'[i].pc = "done"
        /\ inv'[i].outcome = None
        /\ inv'[i].thrown = inv[i].err
        /\ inv'[i].thrown # Some(ErrorOf("markFailed"))
        /\ inv'[i].thrown[1].from \in TryCalls \cup {"markDone"}
        /\ MarkFailedRejected(inv'[i]) => ledger' = ledger

(* C9: markFailed never throws: whether its write is stored or rejected,
   createEntry goes on to throw the error it caught, never the ledger's; a
   rejected write leaves every record as it was. *)
C9_MarkFailedNeverThrows == [][\A i \in Invs : C9_Step(i)]_vars

\* markFailed's write was rejected after the credential call failed: the
\* caller got the credential error and the record is still processing
C9_Witness ==
    /\ LedgerOn
    /\ \E i \in Invs :
          /\ Finished(inv[i])
          /\ MarkFailedRejected(inv[i])
          /\ inv[i].thrown = Some(ErrorOf("getInstallationToken"))
          /\ claimer[inv[i].requestId] = i
          /\ ledger[inv[i].requestId][1].status = "processing"

\* markDone returned before the k-th call of the invocation
MarkDoneBefore(r, k) ==
    \E m \in 1..(k - 1) : r.calls[m].op = "markDone" /\ r.calls[m].ok

C10_Order ==
    \A i \in Invs :
        /\ inv[i].pc = "sendMessage" =>
              WantsQueue(inv[i]) /\ MarkDoneBefore(inv[i], Len(inv[i].calls) + 1)
        /\ \A k \in DOMAIN inv[i].calls :
              inv[i].calls[k].op = "sendMessage" =>
                  WantsQueue(inv[i]) /\ MarkDoneBefore(inv[i], k)
        /\ (Returned(inv[i]) /\ inv[i].outcome[1].kind = "created" /\ WantsQueue(inv[i]))
              => CountOp(inv[i], "sendMessage") = 1

C10_Swallowed ==
    \A i \in Invs :
        Rejected(inv[i], "sendMessage") =>
            /\ Returned(inv[i])
            /\ inv[i].outcome[1] = Created(inv[i])
            /\ inv[i].thrown = None
            /\ "markFailed" \notin Ops(inv[i])
            /\ (LedgerOn /\ claimer[inv[i].requestId] = i) =>
                  ledger[inv[i].requestId][1].status = "done"

\* the step out of sendMessage writes nothing to the ledger
C10_Step ==
    \A i \in Invs : (inv[i].pc = "sendMessage" /\ StepOf(i)) => ledger' = ledger

(* C10: sendMessage is called only for source voice with a queue configured,
   once, and only after markDone has returned; when sendMessage is rejected
   createEntry still returns created, markFailed is not called and the record
   stays done. *)
C10_QueueAfterDone == [](C10_Order /\ C10_Swallowed) /\ [][C10_Step]_vars

\* the queue rejected the message and the caller still got created
C10_Witness ==
    /\ LedgerOn
    /\ \E i \in Invs :
          /\ Rejected(inv[i], "sendMessage")
          /\ Returned(inv[i])
          /\ inv[i].outcome[1].kind = "created"
          /\ ledger[inv[i].requestId] # None
          /\ ledger[inv[i].requestId][1].status = "done"
          /\ queue = <<>>

\* the invocation's call of op returned
Answered(r, op) == \E k \in DOMAIN r.calls : r.calls[k].op = op /\ r.calls[k].ok

\* the invocations whose addComment returned
Commenters == {i \in Invs : Answered(inv[i], "addComment")}

(* C11: with no table configured claim answers {enabled: false, claimed: true}
   to every call, no item is ever written, every invocation goes on to the
   downstream calls and none returns an idempotent outcome; each addComment
   that returned appended a comment of its own (no deduplication). *)
C11_DisabledPassthrough ==
    ~LedgerOn =>
        /\ \A rid \in RequestIds : ledger[rid] = None
        /\ \A i \in Invs :
              /\ inv[i].pc # "claimGet"
              /\ ~Rejected(inv[i], "claim")
              /\ inv[i].idem # None =>
                    /\ inv[i].idem[1] = [enabled |-> FALSE, claimed |-> TRUE]
                    /\ \/ inv[i].pc = "getInstallationToken"
                       \/ "getInstallationToken" \in Ops(inv[i])
              /\ inv[i].outcome # None => inv[i].outcome[1].kind = "created"
        /\ Len(comments) = Cardinality(Commenters)
        /\ \A i \in Commenters :
              \E k \in DOMAIN comments :
                  /\ comments[k].id = inv[i].comment[1].id
                  /\ comments[k].body = Some(inv[i].entry)

\* two calls with one request_id and one content both returned created and
\* left two comments with the same body
C11_Witness ==
    /\ ~LedgerOn
    /\ \E i, j \in Invs :
          /\ i # j
          /\ inv[i].requestId = inv[j].requestId
          /\ inv[i].payloadHash = inv[j].payloadHash
          /\ Returned(inv[i]) /\ Returned(inv[j])
          /\ inv[i].outcome[1].comment_id # inv[j].outcome[1].comment_id
    /\ Len(comments) = 2
    /\ comments[1].body = comments[2].body

\* (payload.request_id || "").toString().trim() is empty
InvalidRequestId(p) ==
    Trim(IF p.request_id = None THEN <<>> ELSE p.request_id[1]) = <<>>

C12_Rejected ==
    \A i \in Invs :
        /\ (inv[i].payload # None /\ InvalidRequestId(inv[i].payload[1])) =>
              /\ inv[i].pc = "done"
              /\ inv[i].thrown = Some(ValidationError)
              /\ inv[i].outcome = None
              /\ inv[i].idem = None
              /\ inv[i].calls = <<>>
        /\ inv[i].thrown = Some(ValidationError) => InvalidRequestId(inv[i].payload[1])

\* the step in which the validation error is thrown changes nothing but the
\* invocation itself
C12_Step ==
    \A i \in Invs :
        (inv[i].thrown = None /\ inv'[i].thrown = Some(ValidationError)) =>
            /\ ledger' = ledger /\ issues' = issues
            /\ comments' = comments /\ queue' = queue
            /\ \A j \in Invs \ {i} : inv'[j] = inv[j]

(* C12: a createEntry whose request_id is missing, empty or only white space
   throws the validation error having made no call at all (claim included),
   and the step leaves the ledger, the issues, the comments and the queue as
   they were. *)
C12_ValidationFirst == []C12_Rejected /\ [][C12_Step]_vars

\* a white-space request_id was rejected while a record of another call exists
C12_Witness ==
    /\ \E i \in Invs :
          /\ inv[i].payload # None
          /\ inv[i].payload[1].request_id = Some(<<" ", "\t">>)
          /\ inv[i].thrown = Some(ValidationError)
    /\ \E rid \in RequestIds : ledger[rid] # None

RaceRetryOutcome ==
    [kind |-> "idempotent", statusCode |-> 409,
     body |-> [ok |-> FALSE, error |-> "idempotency_race_retry"]]

\* the re-read of invocation j answers in this step
ReRead(j) == inv[j].pc = "claimGet" /\ StepOf(j) /\ inv'[j].thrown = None

C13_Step ==
    \A j \in Invs :
        ReRead(j) =>
            /\ inv'[j].pc = "done"
            /\ inv'[j].calls = Append(inv[j].calls, [op |-> "claim", ok |-> TRUE])
            /\ (ledger[inv[j].requestId] = None) <=>
                  (inv'[j].outcome = Some(RaceRetryOutcome))

C13_OnlyWhenGone ==
    \A j \in Invs :
        (inv[j].outcome = Some(RaceRetryOutcome)) =>
            /\ OnlyClaim(inv[j])
            /\ inv[j].requestId \in expired

(* C13: the re-read that follows a failed conditional put answers 409
   idempotency_race_retry exactly when it finds no item; createEntry returns
   that outcome having made no call but claim, and the outcome arises only
   when the item was removed after the put had found it. *)
C13_RaceRetry == []C13_OnlyWhenGone /\ [][C13_Step]_vars

C13_Witness ==
    \E j \in Invs :
        /\ Returned(inv[j])
        /\ inv[j].outcome[1] = RaceRetryOutcome
        /\ inv[j].seen # None

(* C14: when a store call of claim is rejected with an error other than the
   conditional-check conflict, createEntry throws that error: the catch block
   is not entered, markFailed is not called, and no call but claim was made. *)
C14_ClaimErrorPropagates ==
    \A i \in Invs :
        /\ Rejected(inv[i], "claim") =>
              /\ inv[i].pc = "done"
              /\ inv[i].thrown = Some(ErrorOf("claim"))
              /\ inv[i].outcome = None
              /\ inv[i].calls = <<[op |-> "claim", ok |-> FALSE]>>
              /\ inv[i].err = None
              /\ inv[i].mfArg = None
        /\ inv[i].thrown = Some(ErrorOf("claim")) => Rejected(inv[i], "claim")

\* the put itself was rejected: no item of the request_id was ever written
C14_Witness ==
    /\ LedgerOn
    /\ \E i \in Invs :
          /\ inv[i].thrown = Some(ErrorOf("claim"))
          /\ inv[i].seen = None
          /\ ledger[inv[i].requestId] = None
          /\ inv[i].requestId \notin expired

(* C15 as stated: for each date key at most one open issue has that title. *)
C15_OneOpenPerDate ==
    \A k1, k2 \in DOMAIN issues :
        (/\ issues[k1].state = "open"
         /\ issues[k2].state = "open"
         /\ issues[k1].title = issues[k2].title) => k1 = k2

\* what findDailyIssue answered to the invocation
FoundNothing(r) == r.found = Some(None)

FoundPartial(r) ==
    r.found # None /\ r.found[1] # None /\ r.found[1][1].html_url = None

\* the invocation called op or is about to
Reaches(r, op) == r.pc = op \/ op \in Ops(r)

(* C16: createDailyIssue is called exactly when findDailyIssue answered with
   no issue, getIssue exactly when it answered with an issue lacking html_url,
   each at most once; the comment goes to the issue created, re-fetched or
   found, and that issue's number and URL are what markDone stores and what
   the created outcome carries. *)
C16_FindOrCreate ==
    \A i \in Invs :
        /\ inv[i].found = None =>
              /\ ~Reaches(inv[i], "createDailyIssue")
              /\ ~Reaches(inv[i], "getIssue")
              /\ ~Reaches(inv[i], "addComment")
        /\ inv[i].found # None =>
              /\ Reaches(inv[i], "createDailyIssue") <=> FoundNothing(inv[i])
              /\ Reaches(inv[i], "getIssue") <=> FoundPartial(inv[i])
              /\ CountOp(inv[i], "createDailyIssue") <= 1
              /\ CountOp(inv[i], "getIssue") <= 1
        /\ Reaches(inv[i], "addComment") =>
              /\ inv[i].issue # None
              /\ inv[i].issue[1].html_url = Some(HtmlUrl(inv[i].issue[1].number))
              /\ FoundNothing(inv[i]) =>
                    /\ Answered(inv[i], "createDailyIssue")
                    /\ issues[inv[i].issue[1].number].title = inv[i].dateKey
              /\ ~FoundNothing(inv[i]) =>
                    inv[i].issue[1].number = inv[i].found[1][1].number
              /\ FoundPartial(inv[i]) => Answered(inv[i], "getIssue")
        /\ Answered(inv[i], "addComment") =>
              \E k \in DOMAIN comments :
                  /\ comments[k].id = inv[i].comment[1].id
                  /\ comments[k].issue = inv[i].issue[1].number
        /\ (Returned(inv[i]) /\ inv[i].outcome[1].kind = "created") =>
              /\ inv[i].outcome[1].issue_number = inv[i].issue[1].number
              /\ inv[i].outcome[1].issue_url = Some(HtmlUrl(inv[i].issue[1].number))
              /\ inv[i].outcome[1].comment_id = inv[i].comment[1].id
        /\ (LedgerOn /\ Answered(inv[i], "markDone") /\ claimer[inv[i].requestId] = i) =>
              /\ ledger[inv[i].requestId][1].issue_number = Some(inv[i].issue[1].number)
              /\ ledger[inv[i].requestId][1].issue_url = Some(HtmlUrl(inv[i].issue[1].number))

\* one invocation created the issue; another found it without html_url,
\* re-fetched it and returned created
C16_Witness ==
    /\ LedgerOn
    /\ \E i, j \in Invs :
          /\ FoundNothing(inv[i]) /\ Returned(inv[i])
          /\ FoundPartial(inv[j]) /\ Returned(inv[j])
          /\ inv[j].outcome[1].kind = "created"
          /\ inv[j].outcome[1].issue_number = inv[i].outcome[1].issue_number
          /\ claimer[inv[j].requestId] = j

\* the message of the invocation, field by field
ExpectedMessage(r) ==
    [owner |-> Owner, repo |-> Repo, issueNumber |-> r.issue[1].number,
     commentId |-> r.comment[1].id]

(* C17: an invocation calls sendMessage exactly when its markDone returned,
   payload.source is "voice" and a queue service is configured, and at most
   once; every message accepted by the queue is the one of such an invocation:
   the configured owner and repo, the number of the issue commented and the id
   of the comment the invocation created. *)
C17_QueueMessage ==
    /\ \A i \in Invs :
          /\ CountOp(inv[i], "sendMessage") <= 1
          /\ Reaches(inv[i], "sendMessage") <=>
                (/\ Answered(inv[i], "markDone")
                 /\ inv[i].payload[1].source = Some("voice")
                 /\ queueService)
    /\ Len(queue) = Cardinality({i \in Invs : Answered(inv[i], "sendMessage")})
    /\ \A i \in Invs :
          Answered(inv[i], "sendMessage") =>
              /\ \E k \in DOMAIN queue : queue[k] = ExpectedMessage(inv[i])
              /\ \E k \in DOMAIN comments :
                    /\ comments[k].id = inv[i].comment[1].id
                    /\ comments[k].issue = inv[i].issue[1].number
                    /\ comments[k].body = Some(inv[i].entry)

\* with a queue configured a voice entry was enqueued and another entry, not
\* voice, returned created without a message
C17_Witness ==
    /\ queueService
    /\ Len(queue) = 1
    /\ queue[1].owner = Owner /\ queue[1].repo = Repo
    /\ \E j \in Invs :
          /\ Returned(inv[j])
          /\ inv[j].outcome[1].kind = "created"
          /\ inv[j].payload[1].source # Some("voice")
          /\ "sendMessage" \notin Ops(inv[j])

(***************************************************************************)
(* getLog and updateLog.                                                   *)
(***************************************************************************)
\* the calls of the invocation that returned, in order
OkOps(r) == [n \in DOMAIN SelectSeq(r.calls, LAMBDA c : c.ok) |->
                SelectSeq(r.calls, LAMBDA c : c.ok)[n].op]

\* this step is log invocation i's, and in it the call op returned
LogCallReturns(i, op) ==
    /\ Len(logInv'[i].calls) = Len(logInv[i].calls) + 1
    /\ logInv'[i].calls[Len(logInv'[i].calls)] = [op |-> op, ok |-> TRUE]

UpdateLogOps == <<"getInstallationToken", "findDailyIssue", "updateIssue", "closeIssue">>

C18_State ==
    \A i \in LogInvs :
        LET r == logInv[i]
        IN  r.op = "updateLog" =>
              /\ Ops(r) \cap {"claim", "markDone", "markFailed", "sendMessage"} = {}
              /\ Len(OkOps(r)) <= 4
              /\ OkOps(r) = SubSeq(UpdateLogOps, 1, Len(OkOps(r)))
              /\ FoundNothing(r) =>
                    /\ r.outcome = Some([kind |-> "not_found", date |-> r.dateKey])
                    /\ Ops(r) \cap {"updateIssue", "closeIssue"} = {}
              /\ (r.outcome # None /\ r.outcome[1].kind = "updated") =>
                    /\ r.found # None /\ r.found[1] # None
                    /\ OkOps(r) = UpdateLogOps
                    /\ r.outcome[1].date = r.dateKey
                    /\ r.outcome[1].issue_number = r.found[1][1]
                    /\ r.outcome[1].issue_url = Some(HtmlUrl(r.found[1][1]))
                    /\ issues[r.found[1][1]].state = "closed"
              /\ (Finished(r) /\ r.found # None /\ r.found[1] # None /\ r.thrown = None) =>
                    r.outcome # None /\ r.outcome[1].kind = "updated"

C18_Step ==
    \A i \in LogInvs :
        (logInv'[i] # logInv[i] /\ logInv'[i].op = "updateLog") =>
            /\ UNCHANGED <<ledger, queue, comments>>
            /\ (LogCallReturns(i, "findDailyIssue") /\ ~FoundNothing(logInv'[i])) =>
                  /\ issues[logInv'[i].found[1][1]].state = "open"
                  /\ logInv'[i].pc = "updateIssue"
            /\ IF LogCallReturns(i, "updateIssue")
               THEN issues' = [issues EXCEPT ![logInv[i].found[1][1]].body = logInv[i].newBody]
               ELSE IF LogCallReturns(i, "closeIssue")
               THEN /\ issues' = [issues EXCEPT ![logInv[i].found[1][1]].state = "closed"]
                    /\ logInv'[i].outcome # None
                    /\ logInv'[i].outcome[1].kind = "updated"
               ELSE UNCHANGED issues

(* C18: updateLog, when findDailyIssue answers with an (open) issue, replaces
   that issue's body with newBody, then closes it, and returns updated with the
   closed issue's number and URL; when findDailyIssue answers with none it
   returns not_found and calls neither updateIssue nor closeIssue; it never
   calls claim, markDone, markFailed or sendMessage, and no step of it changes
   the ledger, the queue or a comment. *)
C18_UpdateLog == []C18_State /\ [][C18_Step]_vars

\* one updateLog replaced the body of the day's issue and closed it, and a
\* later one for the same date found nothing
C18_Witness ==
    \E i, j \in LogInvs :
        /\ logInv[i].op = "updateLog" /\ logInv[j].op = "updateLog"
        /\ logInv[i].dateKey = logInv[j].dateKey
        /\ Returned(logInv[i]) /\ logInv[i].outcome[1].kind = "updated"
        /\ issues[logInv[i].outcome[1].issue_number].body = logInv[i].newBody
        /\ issues[logInv[i].outcome[1].issue_number].state = "closed"
        /\ Returned(logInv[j]) /\ logInv[j].outcome[1].kind = "not_found"

\* issue k is an open container of date key d under the configured labels
IsContainer(k, d) ==
    /\ issues[k].state = "open"
    /\ Trim(issues[k].title) = d
    /\ ThoughtlogLabel \in Range(issues[k].labels)

Containers(d) == {k \in 1..Len(issues) : IsContainer(k, d)}

\* a comment's text, nothing when it has no body
BodyOrEmpty(c) == IF c.body = None THEN <<>> ELSE c.body[1]

RECURSIVE Glue(_, _, _)
\* the texts of cs[lo..hi], left to right, a newline between neighbours
Glue(cs, lo, hi) ==
    IF lo > hi THEN <<>>
    ELSE Glue(cs, lo, hi - 1) \o (IF lo < hi THEN <<"\n">> ELSE <<>>) \o BodyOrEmpty(cs[hi])

GlueBlock == 16

RECURSIVE GlueBlocks(_, _)
\* the texts of the first b blocks of cs, a newline between neighbours
GlueBlocks(cs, b) ==
    IF b = 0 THEN <<>>
    ELSE GlueBlocks(cs, b - 1) \o (IF b > 1 THEN <<"\n">> ELSE <<>>)
         \o Glue(cs, GlueBlock * (b - 1) + 1,
                 IF GlueBlock * b < Len(cs) THEN GlueBlock * b ELSE Len(cs))

\* every comment of issue k in the tracker's order, joined by newlines
ExpectedLog(k) ==
    LET cs == SelectSeq(comments, LAMBDA c : c.issue = k)
    IN  GlueBlocks(cs, (Len(cs) + GlueBlock - 1) \div GlueBlock)

C19_State ==
    \A i \in LogInvs :
        LET r == logInv[i]
        IN  r.op = "getLog" =>
              /\ FoundNothing(r) =>
                    r.outcome = Some([kind |-> "not_found", date |-> r.dateKey])
              /\ (Finished(r) /\ r.found # None /\ r.found[1] # None /\ r.thrown = None) =>
                    r.outcome = Some([kind |-> "found",
                                      body |-> ExpectedLog(r.found[1][1])])
              /\ r.outcome # None => r.found # None
              /\ Ops(r) \subseteq {"getInstallationToken", "findDailyIssue", "getIssueComments"}

C19_Step ==
    \A i \in LogInvs :
        (logInv'[i] # logInv[i] /\ logInv'[i].op = "getLog") =>
            /\ UNCHANGED <<issues, comments, ledger, queue>>
            /\ LogCallReturns(i, "findDailyIssue") =>
                  /\ Containers(logInv[i].dateKey) = {} => FoundNothing(logInv'[i])
                  /\ ~FoundNothing(logInv'[i]) =>
                        logInv'[i].found[1][1] \in Containers(logInv[i].dateKey)
                  /\ ( /\ Containers(logInv[i].dateKey) # {}
                       /\ Cardinality(SearchMatches(logInv[i].dateKey, LogLabels)) <= SearchPerPage )
                     => ~FoundNothing(logInv'[i])

(* C19: getLog returns not_found with the requested date when no open
   container has the date key as its title, and otherwise (the search hits
   fitting the one page requested) returns found with the bodies of all the
   container's comments, a missing body as the empty text, joined by newlines
   in the tracker's order; no step of getLog changes an issue, a comment, the
   ledger or the queue. *)
C19_GetLog == []C19_State /\ [][C19_Step]_vars

\* a getLog returned the log of a day of more than one page of comments, one of
\* them without a body, and another getLog returned not_found
C19_Witness ==
    \E i, j \in LogInvs :
        /\ logInv[i].op = "getLog" /\ logInv[j].op = "getLog"
        /\ Returned(logInv[i]) /\ logInv[i].outcome[1].kind = "found"
        /\ Len(logInv[i].acc) > CommentsPerPage
        /\ \E n \in DOMAIN logInv[i].acc : logInv[i].acc[n].body = None
        /\ logInv[i].outcome[1].body # <<>>
        /\ Returned(logInv[j]) /\ logInv[j].outcome[1].kind = "not_found"

(***************************************************************************)
(* refineComment.                                                          *)
(***************************************************************************)
\* the leading "## HH:MM" line of a text with its newline, empty when the text
\* does not start with one
LeadingHeader(s) ==
    IF /\ Len(s) >= 9
       /\ SubSeq(s, 1, 3) = <<"#", "#", " ">>
       /\ \A k \in {4, 5, 7, 8} : s[k] \in {"0", "1", "2", "3", "4", "5", "6", "7", "8", "9"}
       /\ s[6] = ":"
       /\ s[9] = "\n"
    THEN SubSeq(s, 1, 9)
    ELSE <<>>

\* s up to its last character that is not whitespace
StripTrailing(s) ==
    LET ks == {k \in 1..Len(s) : ~IsSpace(s[k])}
    IN  IF ks = {} THEN <<>>
        ELSE SubSeq(s, 1, CHOOSE k \in ks : \A m \in ks : m <= k)

\* the body the invocation fetched, "" when the comment had none
FetchedBody(r) == IF r.fetched[1] = None THEN <<>> ELSE r.fetched[1][1]

\* this step is refine invocation i's, and in it the call op returned
RefCallReturns(i, op) ==
    /\ Len(refInv'[i].calls) = Len(refInv[i].calls) + 1
    /\ refInv'[i].calls[Len(refInv'[i].calls)] = [op |-> op, ok |-> TRUE]

C20_State ==
    \A i \in RefInvs :
        LET r == refInv[i]
        IN  r.fetched # None =>
              /\ r.header = LeadingHeader(FetchedBody(r))
              /\ r.content =
                    StripTrailing(SubSeq(FetchedBody(r), Len(r.header) + 1,
                                         Len(FetchedBody(r))))
              /\ r.header = <<>> => r.content = StripTrailing(FetchedBody(r))
              /\ r.fetched[1] = None => r.content = <<>>

C20_Step ==
    \A i \in RefInvs :
        refInv'[i] # refInv[i] =>
            IF RefCallReturns(i, "updateComment")
            THEN /\ refInv[i].fetched # None
                 /\ \E n \in DOMAIN comments :
                       /\ comments[n].id = refInv[i].commentId
                       /\ comments' = [comments EXCEPT ![n].body =
                             Some(LeadingHeader(FetchedBody(refInv[i]))
                                  \o refInv[i].refined \o <<"\n">>)]
            ELSE UNCHANGED comments

(* C20: refineComment updates the comment to header + refinedText + "\n",
   where header is the leading "## HH:MM" line (with its newline) of the body it
   fetched, or empty when the body does not start with one; the text handed to
   the refiner is the rest of the fetched body without trailing whitespace:
   the whole body when there is no header, the empty text when the comment has
   no body. *)
C20_Refine == []C20_State /\ [][C20_Step]_vars

\* one refinement kept the header of an entry written by createEntry and
\* replaced the text under it, the entry's final newline not handed to the
\* refiner; another refined a comment that had no body
C20_Witness ==
    \E i, j \in RefInvs :
        /\ Answered(refInv[i], "updateComment")
        /\ refInv[i].header # <<>>
        /\ Len(refInv[i].header) + Len(refInv[i].content) < Len(FetchedBody(refInv[i]))
        /\ \E n \in DOMAIN comments :
              /\ comments[n].id = refInv[i].commentId
              /\ comments[n].body =
                    Some(refInv[i].header \o refInv[i].refined \o <<"\n">>)
        /\ Answered(refInv[j], "updateComment")
        /\ refInv[j].fetched = Some(None)
        /\ refInv[j].header = <<>>

RefineOps == <<"getInstallationToken", "getComment", "refine", "updateComment">>

\* the ledger operations
LedgerOps == {"claim", "markDone", "markFailed"}

C21_State ==
    /\ \A rid \in RequestIds : ledger[rid] = None
    /\ \A i \in RefInvs :
          LET r == refInv[i]
          IN  /\ Len(r.calls) <= 4
              /\ \A n \in DOMAIN r.calls : r.calls[n].op = RefineOps[n]
              /\ \A n \in DOMAIN r.calls : n < Len(r.calls) => r.calls[n].ok
              /\ Ops(r) \cap LedgerOps = {}
              /\ r.thrown # None <=>
                    (r.calls # <<>> /\ ~r.calls[Len(r.calls)].ok)
              /\ r.thrown # None =>
                    /\ Finished(r)
                    /\ r.thrown[1] = ErrorOf(r.calls[Len(r.calls)].op)
                    /\ ~Answered(r, "updateComment")
              /\ (r.thrown # None /\ r.thrown[1].from # "updateComment") =>
                    "updateComment" \notin Ops(r)

C21_Step ==
    /\ UNCHANGED ledger
    /\ comments' # comments =>
          \E i \in RefInvs :
              /\ RefCallReturns(i, "updateComment")
              /\ OkOps(refInv[i]) = SubSeq(RefineOps, 1, 3)
    /\ \A i \in RefInvs :
          (refInv[i].thrown = None /\ refInv'[i].thrown # None) =>
              UNCHANGED comments

(* C21: refineComment calls getInstallationToken, getComment, refine and
   updateComment in that order, each at most once and each only after the one
   before returned; a call that rejects ends the invocation with that call's
   error (no retry), and when it is one of the first three updateComment is
   not called; a comment's body changes only in the updateComment step of an
   invocation whose three earlier calls returned; no step performs a ledger
   operation or changes the ledger. *)
C21_RefineOrder == []C21_State /\ [][C21_Step]_vars

\* the refiner rejected for one invocation, which left the comment as it had
\* fetched it, and another invocation made all four calls
C21_Witness ==
    \E i, j \in RefInvs :
        /\ refInv[i].thrown = Some(ErrorOf("refine"))
        /\ OkOps(refInv[i]) = SubSeq(RefineOps, 1, 2)
        /\ \E n \in DOMAIN comments :
              /\ comments[n].id = refInv[i].commentId
              /\ Some(comments[n].body) = refInv[i].fetched
        /\ OkOps(refInv[j]) = RefineOps
        /\ Finished(refInv[j])

\* the comment of the seeded repository that createEntry wrote (formatEntry's
\* body of a voice entry)
EntryCommentId == CHOOSE id \in CommentIds :
    \E n \in DOMAIN comments : comments[n].id = id /\ n = Len(comments)

\* the invocations (deliveries of the refinement message of comment id) whose
\* updateComment returned and wrote a body other than the one they had fetched
Mutators(id) ==
    {i \in RefInvs :
        /\ refInv[i].commentId = id
        /\ Answered(refInv[i], "updateComment")
        /\ refInv[i].fetched #
              Some(Some(refInv[i].header \o refInv[i].refined \o <<"\n">>))}

(* C22: the body of a comment created by createEntry is changed by
   refineComment at most once, also when the refinement message of the comment
   is delivered more than once. *)
C22_MutatedAtMostOnce == Cardinality(Mutators(EntryCommentId)) <= 1

(***************************************************************************)
(* createEntry of a voice entry without a refinement path.                 *)
(***************************************************************************)
(* C23: with no refiner configured (the service is built without the
   refinement queue), createEntry of a payload whose source is "voice" is
   rejected before any side effect: it makes no call, claim included (so that
   the ledger and the issues stay as they were), ends by throwing, and no
   comment carries its entry. *)
C23_VoiceRejected ==
    ~queueService =>
        \A i \in Invs :
            (inv[i].payload # None /\ inv[i].payload[1].source = Some("voice")) =>
                /\ Ops(inv[i]) = {}
                /\ (Finished(inv[i]) => inv[i].thrown # None)
                /\ \A n \in DOMAIN comments : comments[n].body # Some(inv[i].entry)

(***************************************************************************)
(* The date key.                                                           *)
(***************************************************************************)
IsLeap(y) == (y % 4 = 0 /\ y % 100 # 0) \/ y % 400 = 0

DaysIn(y, m) ==
    IF m = 2 THEN (IF IsLeap(y) THEN 29 ELSE 28)
    ELSE IF m \in {4, 6, 9, 11} THEN 30
    ELSE 31

\* the calendar day after y-m-d
NextDay(y, m, d) ==
    IF d < DaysIn(y, m) THEN <<y, m, d + 1>>
    ELSE IF m < 12 THEN <<y, m + 1, 1>>
    ELSE <<y + 1, 1, 1>>

\* YYYY-MM-DD of a day of a four-digit year
Ymd(day) ==
    <<DigitChar[((day[1] \div 1000) % 10) + 1], DigitChar[((day[1] \div 100) % 10) + 1],
      DigitChar[((day[1] \div 10) % 10) + 1], DigitChar[(day[1] % 10) + 1], "-",
      DigitChar[(day[2] \div 10) + 1], DigitChar[(day[2] % 10) + 1], "-",
      DigitChar[(day[3] \div 10) + 1], DigitChar[(day[3] % 10) + 1]>>

\* the UTC date of the instant nine hours after iso: the next day from 15:00 on
DateNineHoursOn(iso) ==
    IF iso.hh >= 15 THEN NextDay(iso.y, iso.m, iso.d) ELSE <<iso.y, iso.m, iso.d>>

(* C24: for a payload with captured_at, getDateKeyJst is the YYYY-MM-DD form
   of the UTC date of captured_at + 9 hours: the next UTC day for instants at
   or after 15:00 UTC, the same day for earlier ones; 2024-01-14T20:00:00Z
   gives 2024-01-15. *)
C24_DateKey ==
    (call.fn = "getDateKeyJst" /\ call.arg.captured_at # None) =>
        /\ call.res = Ymd(DateNineHoursOn(call.arg.captured_at[1]))
        /\ call.arg.captured_at[1] = T1 => call.res = Day15

\* the key of 2024-02-29T15:00:00Z was computed: the first instant of March 1st
\* in UTC+9
C24_Witness ==
    /\ call.fn = "getDateKeyJst"
    /\ call.arg.captured_at =
          Some([y |-> 2024, m |-> 2, d |-> 29, hh |-> 15, mi |-> 0, ss |-> 0])
    /\ call.res = <<"2", "0", "2", "4", "-", "0", "3", "-", "0", "1">>

(***************************************************************************)
(* The labels.                                                             *)
(***************************************************************************)
\* s without the whitespace at its two ends
Strip(s) ==
    LET ks == {k \in 1..Len(s) : ~IsSpace(s[k])}
    IN  IF ks = {} THEN <<>>
        ELSE SubSeq(s, CHOOSE k \in ks : \A m \in ks : k <= m,
                       CHOOSE k \in ks : \A m \in ks : m <= k)

\* the pieces of csv between its commas, in order
Pieces(csv) ==
    LET commas  == {k \in 1..Len(csv) : csv[k] = ","}
        mark(n) == IF n = 0 THEN 0
                   ELSE IF n = Cardinality(commas) + 1 THEN Len(csv) + 1
                   ELSE CHOOSE k \in commas :
                            Cardinality({c \in commas : c < k}) = n - 1
    IN  [n \in 1..(Cardinality(commas) + 1) |->
            SubSeq(csv, mark(n - 1) + 1, mark(n) - 1)]

\* the default labels followed by the payload's, each stripped
Candidates(csv, labels) ==
    [n \in DOMAIN Pieces(csv) |-> Strip(Pieces(csv)[n])]
        \o (IF labels = None THEN <<>>
            ELSE [n \in DOMAIN labels[1] |-> Strip(labels[1][n])])

\* where x first occurs in the sequence c
FirstAt(c, x) == CHOOSE k \in DOMAIN c : c[k] = x /\ \A m \in DOMAIN c : c[m] = x => k <= m

(* C25: parseLabels returns the labels of the default comma-separated list
   followed by the payload's labels, each trimmed, the blank ones dropped, each
   label once, in the order of first occurrence; payload labels that are not
   an array contribute nothing. *)
C25_ParseLabels ==
    call.fn = "parseLabels" =>
        LET c == Candidates(call.csv, call.labels)
            r == call.res
        IN  /\ Range(r) = Range(c) \ {<<>>}
            /\ \A i, j \in DOMAIN r : i < j =>
                  /\ r[i] # r[j]
                  /\ FirstAt(c, r[i]) < FirstAt(c, r[j])
            /\ call.labels = None =>
                  Range(r) = {Strip(Pieces(call.csv)[n]) : n \in DOMAIN Pieces(call.csv)} \ {<<>>}

\* " a , b " with the payload labels b, c, b, a gave a, b, c
C25_Witness ==
    /\ call.fn = "parseLabels"
    /\ call.csv = <<" ", "a", " ", ",", " ", "b", " ">>
    /\ call.labels = Some(<<<<"b">>, <<"c">>, <<"b">>, <<"a">>>>)
    /\ call.res = <<<<"a">>, <<"b">>, <<"c">>>>

(***************************************************************************)
(* The entry.                                                              *)
(***************************************************************************)
\* two decimal digits
TwoDigits(n) == <<DigitChar[(n \div 10) + 1], DigitChar[(n % 10) + 1]>>

\* an optional text, empty when missing
TextOf(opt) == IF opt = None THEN <<>> ELSE opt[1]

(* C26: formatEntry is "## HH:MM" of captured_at nine hours on, two digits
   each, and a newline; then "**[kind]** " with the trimmed kind, only when
   that is not empty; then the trimmed raw text, empty when raw is missing;
   then a newline. *)
C26_FormatEntry ==
    (call.fn = "formatEntry" /\ call.arg.captured_at # None) =>
        LET iso  == call.arg.captured_at[1]
            kind == Strip(TextOf(call.arg.kind))
        IN  call.res =
              <<"#", "#", " ">> \o TwoDigits((iso.hh + 9) % 24) \o <<":">>
                  \o TwoDigits(iso.mi) \o <<"\n">>
                  \o (IF kind = <<>> THEN <<>>
                      ELSE <<"*", "*", "[">> \o kind \o <<"]", "*", "*", " ">>)
                  \o Strip(TextOf(call.arg.raw)) \o <<"\n">>

\* an entry of 15:00 UTC with a blank kind and a raw text in white space
C26_Witness ==
    /\ call.fn = "formatEntry"
    /\ call.arg.captured_at # None /\ call.arg.captured_at[1].hh = 15
    /\ call.arg.kind = Some(<<" ", "\t">>)
    /\ call.arg.raw = Some(<<" ", "h", "i", "\t", "\n">>)
    /\ call.res = <<"#", "#", " ", "0", "0", ":", "0", "0", "\n", "h", "i", "\n">>

(***************************************************************************)
(* getIssueComments.                                                       *)
(***************************************************************************)
\* the getLog invocation is in getIssueComments or has been
Paging(r) == r.op = "getLog" /\ r.found # None /\ r.found[1] # None

\* the n-th block of CommentsPerPage of the sequence all
Block(all, n) ==
    SubSeq(all, (n - 1) * CommentsPerPage + 1,
           IF n * CommentsPerPage < Len(all) THEN n * CommentsPerPage ELSE Len(all))

C27_State ==
    \A i \in LogInvs :
        LET r   == logInv[i]
            all == SelectSeq(comments, LAMBDA c : c.issue = r.found[1][1])
        IN  Paging(r) =>
              /\ CountOp(r, "getIssueComments") <= (Len(all) \div CommentsPerPage) + 1
              /\ r.pc = "getIssueComments" =>
                    /\ CountOp(r, "getIssueComments") = r.page - 1
                    /\ (r.page - 1) * CommentsPerPage <= Len(all)
                    /\ r.acc = SubSeq(all, 1, (r.page - 1) * CommentsPerPage)
              /\ Returned(r) =>
                    /\ r.acc = all
                    /\ CountOp(r, "getIssueComments") = (Len(all) \div CommentsPerPage) + 1

C27_Step ==
    \A i \in LogInvs :
        LogCallReturns(i, "getIssueComments") =>
            LET r   == logInv[i]
                all == SelectSeq(comments, LAMBDA c : c.issue = r.found[1][1])
            IN  /\ logInv'[i].acc = r.acc \o Block(all, r.page)
                /\ IF Len(Block(all, r.page)) < CommentsPerPage
                   THEN Returned(logInv'[i])
                   ELSE logInv'[i].pc = "getIssueComments" /\ logInv'[i].page = r.page + 1

C27_Terminates ==
    \A i \in LogInvs : (logInv[i].pc = "getIssueComments") ~> Finished(logInv[i])

(* C27: getIssueComments requests the pages 1, 2, ... of 100 comments, each
   answer appended whole to what it has; it stops after the first page that is
   empty or shorter than 100 and requests no page after it; it always ends;
   what it returns is the comments of the fetched pages in page order, each
   once (all of the issue's comments). *)
C27_Paging == []C27_State /\ [][C27_Step]_vars /\ C27_Terminates

\* an issue of exactly 100 comments was read with two requests, the second
\* page being empty
C27_Witness ==
    \E i \in LogInvs :
        /\ Paging(logInv[i]) /\ Returned(logInv[i])
        /\ Len(logInv[i].acc) = CommentsPerPage
        /\ CountOp(logInv[i], "getIssueComments") = 2
\* ---- C28 ----------------------------------------------------------------

\* what a getter gives for a raw secret string, stated per getter
PemOf(raw) == IF raw.json THEN raw.github_private_key ELSE None
KeyOf(raw) == IF raw.json THEN raw.openai_api_key ELSE None

CacheKept ==
    /\ secrets'.cachedValue = secrets.cachedValue
    /\ secrets'.cacheExpiresAt = secrets.cacheExpiresAt

\* one cached value with its expiry; an access contacts the store at most once
C28_State ==
    /\ secrets.acc.contacts <= 1
    /\ secrets.sends <= secrets.accesses
    /\ secrets.cachedValue = None => secrets.cacheExpiresAt = 0
    /\ secrets.cachedValue # None => secrets.cacheExpiresAt > 0

C28_Step ==
    LET accessed == secrets'.accesses = secrets.accesses + 1
        answered == secrets.acc.pc = "send" /\ secrets'.acc.pc = "done"
        failed   == secrets'.acc.thrown \in
                       {Some("send"), Some("has no SecretString")}
    IN  /\ accessed /\ secrets.cachedValue # None /\ now < secrets.cacheExpiresAt
             => /\ secrets'.sends = secrets.sends
                /\ CacheKept
                /\ secrets'.acc.pc = "done"
                /\ secrets'.acc.contacts = 0
                /\ secrets'.acc.getter \in {"getPrivateKeyPem", "getOpenAiApiKey"}
                /\ secrets'.acc.getter = "getPrivateKeyPem"
                     => secrets'.acc.result = PemOf(secrets.cachedValue[1])
                /\ secrets'.acc.getter = "getOpenAiApiKey"
                     => secrets'.acc.result = KeyOf(secrets.cachedValue[1])
        /\ accessed /\ ~(secrets.cachedValue # None /\ now < secrets.cacheExpiresAt)
             => /\ secrets'.sends = secrets.sends + 1
                /\ secrets'.acc.pc = "send"
                /\ secrets'.acc.contacts = 1
                /\ CacheKept
        /\ ~accessed => secrets'.sends = secrets.sends
        /\ answered /\ failed => CacheKept
        /\ answered /\ ~failed
             => /\ secrets'.cachedValue # None
                /\ secrets'.cacheExpiresAt = now + secrets.ttlMs
                /\ secrets'.acc.getter = "getPrivateKeyPem"
                     => secrets'.acc.result = PemOf(secrets'.cachedValue[1])
                /\ secrets'.acc.getter = "getOpenAiApiKey"
                     => secrets'.acc.result = KeyOf(secrets'.cachedValue[1])
        /\ ~answered => CacheKept

\* C28: the provider holds one cached value with an expiry. After a
\* successful fetch every access before the expiry, through either getter,
\* is answered from the cached value without a request to the store; an
\* access at or after the expiry sends exactly one request, and its answer
\* resets the expiry to the time of the answer plus the ttl; a request that
\* fails or returns no value leaves the cached value and the expiry as they were.
C28_Cache == []C28_State /\ [][C28_Step]_vars

\* a fetch, an access answered from the cache, then an access exactly at the
\* expiry that fetched again and reset the expiry
C28_Witness ==
    /\ secrets.accesses = 3
    /\ secrets.sends = 2
    /\ secrets.acc.pc = "done"
    /\ secrets.acc.contacts = 1
    /\ secrets.acc.result # None
    /\ now = ClockStart + secrets.ttlMs
    /\ secrets.cacheExpiresAt = now + secrets.ttlMs

\* ---- C29 ----------------------------------------------------------------

\* the branch of handle a request takes
RouteOf(q) ==
    IF q.method = "GET" /\ q.dateParam # None THEN "getLog"
    ELSE IF q.method = "PUT" /\ q.dateParam # None THEN "updateLog"
    ELSE IF q.method = "POST" THEN "createEntry"
    ELSE "none"

\* the body cannot be parsed by the branch that reads it
Unparseable(q) ==
    \/ RouteOf(q) = "updateLog" /\ q.body.json = "malformed"
    \/ RouteOf(q) = "createEntry" /\ q.body.json \in {"empty", "malformed"}

\* the trimmed text of a field that may be absent
TrimmedOr(v) == IF v = None THEN <<>> ELSE Trim(v[1])

\* what the claim says of the responses handle returns
C29_Mapping ==
    call.fn = "handle" /\ ~call.res.thrown =>
      LET q == call.req
          r == call.res
          out == IF r.called = None THEN [kind |-> "none"]
                 ELSE call.svc[r.called[1].op]
      IN  /\ out.kind = "created" => r.statusCode = 201
          /\ out.kind = "idempotent"
               => r.statusCode = out.statusCode /\ r.body = out.body
          /\ out.kind \in {"found", "updated"} => r.statusCode = 200
          /\ out.kind = "not_found" => r.statusCode = 404
          /\ out.kind = "throw" => r.statusCode = 500
          /\ Unparseable(q) => r.statusCode = 400 /\ r.called = None
          /\ RouteOf(q) = "createEntry" /\ ~Unparseable(q)
               /\ TrimmedOr(q.body.request_id) = <<>>
               => /\ r.statusCode = 400
                  /\ r.body.error = "missing_request_id"
                  /\ r.called = None
          /\ RouteOf(q) = "updateLog" /\ ~Unparseable(q)
               /\ TrimmedOr(q.body.raw) = <<>>
               => /\ r.statusCode = 400
                  /\ r.body.error = "missing_body"
                  /\ r.called = None
          /\ q.method # "POST" /\ q.dateParam = None => r.statusCode = 405
          /\ r.called # None => r.called[1].op = RouteOf(q)

\* C29: handle never throws, and maps every outcome to a status: created 201,
\* idempotent the outcome's own statusCode and body, found and updated 200,
\* not_found 404, an exception of the service 500, unparseable JSON 400; a
\* POST whose trimmed request_id is empty and a PUT whose trimmed raw is empty
\* give 400 missing_request_id and missing_body without a call to the
\* service; a method other than POST on a path without a date gives 405.
C29_Handle ==
    /\ call.fn = "handle" => ~call.res.thrown
    /\ C29_Mapping

\* ---- C30 ----------------------------------------------------------------

\* invocation i's claim succeeds in this step
Claims(i) ==
    /\ inv[i].pc = "claim"
    /\ inv'[i].idem = Some([enabled |-> TRUE, claimed |-> TRUE])

\* C30: a successful claim writes a record with status processing, the
\* supplied payload_hash, created_at equal to the current epoch second and
\* ttl equal to the current epoch second plus ttlDays * 86400, where ttlDays
\* is the configured number of days, and 14 when none is configured.
C30_ClaimRecord ==
    [][ \A i \in Invs : Claims(i) =>
          LET rec  == ledger'[inv[i].requestId]
              days == IF idempotencyTtlDays = None THEN 14
                      ELSE idempotencyTtlDays[1]
          IN  /\ ledger[inv[i].requestId] = None
              /\ rec # None
              /\ rec[1].status = "processing"
              /\ rec[1].payload_hash = Some(inv[i].payloadHash)
              /\ rec[1].created_at = Some(now)
              /\ rec[1].ttl = Some(now + days * 86400)
              /\ \A k \in RequestIds \ {inv[i].requestId} : ledger'[k] = ledger[k]
      ]_vars

\* a record claimed after the clock has advanced, under a configured
\* retention of 30 days
C30_Witness ==
    /\ idempotencyTtlDays = Some(30)
    /\ \E k \in RequestIds :
         /\ ledger[k] # None
         /\ ledger[k][1].status = "processing"
         /\ ledger[k][1].created_at = Some(Now0 + TickStep)
         /\ ledger[k][1].ttl = Some(Now0 + TickStep + 2592000)

\* ---- C31 ----------------------------------------------------------------

\* the place of a collaborator in createEntry's try block
Rank(op) ==
    CASE op = "getInstallationToken" -> 1
      [] op = "findDailyIssue" -> 2
      [] op \in {"createDailyIssue", "getIssue"} -> 3
      [] op = "addComment" -> 4
      [] op = "markDone" -> 5
      [] op = "sendMessage" -> 6
      [] OTHER -> 0

\* the calls an invocation made to its collaborators, claim and markFailed
\* left out
Pipeline(r) == SelectSeq(r.calls, LAMBDA c : Rank(c.op) > 0)

(* C31: an invocation that has claimed calls getInstallationToken,
   findDailyIssue, createDailyIssue or getIssue (when needed), addComment,
   markDone and sendMessage (when applicable) in that order, each at most once
   and each only after the one before it returned; an invocation that has not
   claimed calls none of them. *)
C31_CallOrder ==
    \A i \in Invs :
        LET r == inv[i]
            P == Pipeline(r)
        IN  /\ P # <<>> =>
                  /\ r.calls[1] = [op |-> "claim", ok |-> TRUE]
                  /\ r.idem # None /\ r.idem[1].claimed
                  /\ Rank(P[1].op) = 1
            /\ \A n \in 1..(Len(P) - 1) :
                  /\ P[n].ok
                  /\ \/ Rank(P[n + 1].op) = Rank(P[n].op) + 1
                     \/ Rank(P[n].op) = 2 /\ Rank(P[n + 1].op) = 4
            /\ \A op \in Ops(r) : Rank(op) > 0 => CountOp(r, op) = 1
            /\ "addComment" \in Ops(r) =>
                  /\ Answered(r, "findDailyIssue")
                  /\ "createDailyIssue" \in Ops(r) => Answered(r, "createDailyIssue")
            /\ "markDone" \in Ops(r) => Answered(r, "addComment")
            /\ "sendMessage" \in Ops(r) => Answered(r, "markDone")

\* an invocation that made all six calls, creating the day's issue and
\* enqueuing the refinement
C31_Witness ==
    \E i \in Invs :
        /\ Finished(inv[i])
        /\ [n \in DOMAIN Pipeline(inv[i]) |-> Pipeline(inv[i])[n].op] =
             <<"getInstallationToken", "findDailyIssue", "createDailyIssue",
               "addComment", "markDone", "sendMessage">>
        /\ \A n \in DOMAIN Pipeline(inv[i]) : Pipeline(inv[i])[n].ok

\* ---- C32 ----------------------------------------------------------------

\* a comment was appended for the request_id: the addComment of an invocation
\* carrying it returned
CommentAppended(rid) == \E j \in SameRequest(rid) : Answered(inv[j], "addComment")

(* C32: with the ledger enabled, once an invocation that claimed has finished
   (its record not purged since), the request's record is done exactly when a
   comment was appended for that request_id; a record in status failed means
   that no comment was appended, also when markDone itself failed. *)
C32_DoneIffCommented ==
    LedgerOn =>
        \A i \in Invs :
            (ClaimedAndFinished(i) /\ ledger[inv[i].requestId] # None) =>
                LET rid == inv[i].requestId
                    rec == ledger[rid][1]
                IN  /\ rec.status = "done" <=> CommentAppended(rid)
                    /\ rec.status = "failed" => ~CommentAppended(rid)

\* ---- C33 ----------------------------------------------------------------

\* the invocation has computed its payloadHash
Hashed(r) == r.payload # None /\ r.payloadHash # <<>>

\* the payload with its source left out
SourceBlind(p) == [p EXCEPT !.source = None]

(* C33: the payloadHash computed by createEntry depends on the payload (its
   source excepted) and the configured default labels alone: two invocations
   whose payloads are identical, or differ only in source, compute the same
   payloadHash whatever the time at which each runs, also when captured_at
   is omitted. *)
C33_HashOfPayload ==
    \A i, j \in Invs :
        (/\ Hashed(inv[i])
         /\ Hashed(inv[j])
         /\ SourceBlind(inv[i].payload[1]) = SourceBlind(inv[j].payload[1]))
            => inv[i].payloadHash = inv[j].payloadHash


\* ---------------------------------------------------------------------------
\* C34
\* ---------------------------------------------------------------------------

\* an open issue whose title is exactly the date key
OpenTitled(dateKey) ==
    {k \in DOMAIN issues : issues[k].state = "open" /\ issues[k].title = dateKey}

(* C34 as stated: when createEntry invocations do not overlap and the default
   label list is fixed, createDailyIssue creates an issue for a date key only
   when no open issue has that exact title, whatever labels the payload
   carries; so no second open issue of a date key appears. *)
C34_CreateOnlyWhenAbsent ==
    [][Len(issues') > Len(issues) =>
          /\ OpenTitled(issues'[Len(issues')].title) = {}
          /\ \A k1, k2 \in DOMAIN issues' :
                (/\ issues'[k1].state = "open"
                 /\ issues'[k2].state = "open"
                 /\ issues'[k1].title = issues'[k2].title) => k1 = k2]_vars


\* ---------------------------------------------------------------------------
\* C35
\* ---------------------------------------------------------------------------

\* updateLog invocation i returns from a closeIssue that succeeded
Closes(i) ==
    /\ logInv[i].op = "updateLog"
    /\ logInv[i].pc = "closeIssue"
    /\ logInv'[i].pc = "done"
    /\ logInv'[i].outcome # None

\* the label lists a createEntry may search with
EntryLabels == {parseLabels(defaultLabels, p.labels) : p \in Payloads}

\* the comment createEntry invocation r appended is on the issue r holds, that
\* issue is titled with r's date key, and r holds the issue findDailyIssue
\* returned to it or, when that returned none, the one it created itself
CommentOnOwnContainer(r) ==
    /\ \E k \in DOMAIN comments :
          /\ comments[k].id = r.comment[1].id
          /\ comments[k].issue = r.issue[1].number
    /\ issues[r.issue[1].number].title = r.dateKey
    /\ IF FoundNothing(r)
       THEN Answered(r, "createDailyIssue")
       ELSE r.found[1][1].number = r.issue[1].number

(* C35 as stated: once a successful updateLog for a date key has closed its
   container, getLog of that date key finds nothing (not_found) and so does the
   findDailyIssue of the next createEntry, which therefore creates a new
   container; and every comment createEntry appended is on the container that
   findDailyIssue returned to it as open or that it created itself. *)
C35_ClosedThenNew ==
    /\ [][\A i \in LogInvs : Closes(i) =>
            /\ (FindDailyIssue(logInv[i].dateKey, LogLabels))' = {None}
            /\ \A ls \in EntryLabels :
                  (FindDailyIssue(logInv[i].dateKey, ls))' = {None}]_vars
    /\ [](\A i \in Invs :
            Answered(inv[i], "addComment") => CommentOnOwnContainer(inv[i]))


\* ---------------------------------------------------------------------------
\* C36
\* ---------------------------------------------------------------------------

\* the payloads whose entry may be the body of comment 102
EntryPayloads ==
    {[q EXCEPT !.raw = r] :
        q \in {p \in Payloads : p.source = Some("voice")},
        r \in {Some(<<"h", "i">>), Some(<<" ">>)}}

\* the first line of a text, its line feed included
FirstLine(s) ==
    IF \E n \in DOMAIN s : s[n] = "\n"
    THEN SubSeq(s, 1, CHOOSE n \in DOMAIN s :
                         s[n] = "\n" /\ \A m \in 1..(n - 1) : s[m] # "\n")
    ELSE s

\* "**[kind]**" when the payload has a kind, and the prefix made of it
KindMark(p) ==
    IF TrimmedOr(p.kind) = <<>> THEN <<>>
    ELSE <<"*", "*", "[">> \o TrimmedOr(p.kind) \o <<"]", "*", "*">>

KindPrefix(p) == IF KindMark(p) = <<>> THEN <<>> ELSE KindMark(p) \o <<" ">>

StartsWith(s, pre) == Len(s) >= Len(pre) /\ SubSeq(s, 1, Len(pre)) = pre

\* the stored body of the comment createEntry made
EntryCommentBody(cs) ==
    LET c == cs[CHOOSE n \in DOMAIN cs : cs[n].id = 102]
    IN  IF c.body = None THEN <<>> ELSE c.body[1]

\* refineComment invocation i fetched the body formatEntry made of payload p
FetchedEntry(i, p) == refInv[i].fetched = Some(Some(formatEntry(p, Now0)))

\* the header is the "## HH:MM" line of the body, and the kind mark is in the
\* content, not in the header
HeaderSplit(i, p) ==
    /\ refInv[i].header # <<>>
    /\ refInv[i].header = FirstLine(formatEntry(p, Now0))
    /\ Len(refInv[i].header) = HeaderLen
    /\ StartsWith(refInv[i].content, KindMark(p))

\* every refinement leaves the first line of the comment as it was
HeaderKept ==
    FirstLine(EntryCommentBody(comments')) = FirstLine(EntryCommentBody(comments))

(* C36 as stated: the body formatEntry makes of a payload with a captured_at
   is split by parseTimestampHeader into its "## HH:MM" line as non-empty
   header and a content equal to the kind prefix (when there is a kind)
   followed by the trimmed raw text; the header of the comment survives every
   refineComment, and the kind prefix is in the text handed to the refiner. *)
C36_PrefixThenRaw ==
    /\ [](\A i \in RefInvs, p \in EntryPayloads : FetchedEntry(i, p) =>
            /\ HeaderSplit(i, p)
            /\ refInv[i].content = KindPrefix(p) \o TrimmedOr(p.raw))
    /\ [][HeaderKept]_vars

(* C36 amended: as above, with the content equal to the kind prefix followed by
   the trimmed raw text and stripped of trailing white space: for an empty
   trimmed raw text it is the kind mark without the blank that ends the
   prefix. *)
C36_HeaderAndContent ==
    /\ [](\A i \in RefInvs, p \in EntryPayloads : FetchedEntry(i, p) =>
            /\ HeaderSplit(i, p)
            /\ refInv[i].content = TrimEnd(KindPrefix(p) \o TrimmedOr(p.raw)))
    /\ [][HeaderKept]_vars

\* comment 102, made of a payload with a kind and a blank raw text, was
\* refined twice, the second time from its refined body
C36_Witness ==
    /\ \A i \in RefInvs :
          /\ refInv[i].pc = "done"
          /\ refInv[i].commentId = 102
          /\ Answered(refInv[i], "updateComment")
    /\ \E i \in RefInvs, p \in EntryPayloads :
          /\ FetchedEntry(i, p)
          /\ KindMark(p) # <<>>
          /\ TrimmedOr(p.raw) = <<>>
    /\ \E i \in RefInvs : \A p \in EntryPayloads : ~FetchedEntry(i, p)


\* ---------------------------------------------------------------------------
\* C37
\* ---------------------------------------------------------------------------

\* the records of the batch that went through: parsed, and refined by a
\* refineComment that returned
RefinedRecords == {m \in DOMAIN batchInv.log : batchInv.log[m].ok}

\* the body the handler's refinements left in comment id: that of the last
\* record that named it
LastWritten(id) ==
    LET ms == {m \in RefinedRecords : batchInv.log[m].commentId = id}
    IN  IF ms = {} THEN None
        ELSE Some(batchInv.log[CHOOSE m \in ms : \A o \in ms : o <= m].body)

(* C37: the handler takes the records one at a time in their order; it throws
   at the first record whose body is not JSON or whose refineComment rejects;
   then no later record has been refined, and every record before it has: its
   comment holds what its refinement wrote (or what a later refinement of the
   same comment, earlier in the batch than the failure, wrote). *)
C37_BatchInOrder ==
    LET b == batchInv
        n == Len(b.log)
    IN  /\ \A m \in 1..n : b.log[m].rec = m
        /\ \A m \in 1..(n - 1) : b.log[m].ok
        /\ b.k \in {n, n + 1} /\ b.k <= Len(b.records)
        /\ b.pc = "await" <=> b.k = n + 1
        /\ b.pc = "await" =>
              /\ b.records[b.k] # None
              /\ refInv[1].commentId = b.records[b.k][1]
        /\ \A j \in 1..n : b.log[j].ok =>
              /\ b.records[j] # None
              /\ b.log[j].commentId = b.records[j][1]
        /\ b.thrown # None <=> (n > 0 /\ ~b.log[n].ok)
        /\ b.thrown # None =>
              /\ b.pc = "done"
              /\ \/ b.records[n] = None
                 \/ /\ refInv[1].commentId = b.records[n][1]
                    /\ refInv[1].thrown = b.thrown
              /\ RefinedRecords = 1..(n - 1)
        /\ (b.pc = "done" /\ b.thrown = None) => RefinedRecords = DOMAIN b.records
        /\ b.pc # "await" =>
              \A c \in DOMAIN comments :
                  LastWritten(comments[c].id) # None =>
                      comments[c].body = LastWritten(comments[c].id)
        /\ \A i \in RefInvs \ {1} : refInv[i] = IdleRef

\* a batch of three whose second record failed after the first was refined,
\* with a third record that could have been refined
C37_Witness ==
    /\ batchInv.thrown # None
    /\ Len(batchInv.records) = 3
    /\ batchInv.k = 2
    /\ batchInv.records[3] # None
    /\ RefinedRecords = {1}
    /\ \E c \in DOMAIN comments :
          /\ comments[c].id = batchInv.records[1][1]
          /\ comments[c].body = Some(batchInv.log[1].body)
    /\ batchInv.records[2] # None


\* ---------------------------------------------------------------------------
\* C38
\* ---------------------------------------------------------------------------

\* updateLog invocation i ended with the error of its closeIssue
FailedClose(i) ==
    /\ logInv[i].op = "updateLog"
    /\ logInv[i].pc = "done"
    /\ logInv[i].thrown = Some(ErrorOf("closeIssue"))

\* no other invocation has updated or closed the issue invocation i found
OnlyWriter(i) ==
    \A j \in LogInvs \ {i} :
        logInv[j].found = logInv[i].found =>
            /\ ~Answered(logInv[j], "updateIssue")
            /\ ~Answered(logInv[j], "closeIssue")

\* invocation j, an updateLog, gets the answer of its findDailyIssue
FindsAgain(j) ==
    /\ logInv[j].op = "updateLog"
    /\ logInv[j].pc = "findDailyIssue"
    /\ logInv'[j].pc # "findDailyIssue"
    /\ logInv'[j].thrown = None

(* C38: when closeIssue rejects after updateIssue went through, updateLog
   ends with that error and returns nothing, the step undoes nothing, the
   issue stays open with newBody as its body (as long as no other invocation
   writes to it), and an updateLog for the same date key that searches
   afterwards finds that issue and goes on to update it. *)
C38_NoRollback ==
    /\ [](\A i \in LogInvs : FailedClose(i) =>
            /\ logInv[i].outcome = None
            /\ Answered(logInv[i], "updateIssue")
            /\ OnlyWriter(i) =>
                  /\ issues[logInv[i].found[1][1]].state = "open"
                  /\ issues[logInv[i].found[1][1]].body = logInv[i].newBody)
    /\ [][/\ \A i \in LogInvs :
                (~FailedClose(i) /\ FailedClose(i)') => issues' = issues
          /\ \A i, j \in LogInvs :
                (FailedClose(i) /\ OnlyWriter(i) /\ FindsAgain(j)
                   /\ logInv[j].dateKey = logInv[i].dateKey) =>
                    /\ logInv'[j].found = logInv[i].found
                    /\ logInv'[j].pc = "updateIssue"]_vars

\* after the failed close of one updateLog, another for the same date key has
\* found the same issue, still open and with the first one's newBody
C38_Witness ==
    /\ FailedClose(1)
    /\ logInv[1].newBody = <<"n", "e", "w">>
    /\ logInv[2].op = "updateLog"
    /\ logInv[2].dateKey = logInv[1].dateKey
    /\ logInv[2].pc = "updateIssue"
    /\ logInv[2].found = logInv[1].found
    /\ issues[logInv[1].found[1][1]].state = "open"
    /\ issues[logInv[1].found[1][1]].body = <<"n", "e", "w">>


\* ---------------------------------------------------------------------------
\* C39
\* ---------------------------------------------------------------------------

\* the message itself when it has at most 900 characters, else its first 900
FirstChars(msg) ==
    IF msg.len <= 900 THEN msg ELSE [text |-> msg.text, len |-> 900]

\* invocation i's markFailed returns in this step, with a table configured
MarkFailedStored(i) ==
    /\ tableName # None
    /\ inv[i].pc = "markFailed"
    /\ ~Answered(inv[i], "markFailed")
    /\ Answered(inv'[i], "markFailed")

(* C39: the error markFailed stores is the message it was given when that has
   at most 900 characters, and the first 900 characters of it otherwise. *)
C39_ErrorCut ==
    /\ [][\A i \in Invs : MarkFailedStored(i) =>
            /\ ledger'[inv[i].requestId] # None
            /\ ledger'[inv[i].requestId][1].error =
                  Some(FirstChars(inv'[i].mfArg[1]))]_vars
    /\ [](\A rid \in RequestIds :
            (ledger[rid] # None /\ ledger[rid][1].error # None) =>
                /\ ledger[rid][1].error[1].len <= 900
                /\ \E i \in SameRequest(rid) :
                      /\ inv[i].mfArg # None
                      /\ ledger[rid][1].error = Some(FirstChars(inv[i].mfArg[1])))

\* one record holds the 900-character cut of a longer message, another a
\* shorter message whole
C39_Witness ==
    \E i, j \in Invs :
        /\ inv[i].requestId # inv[j].requestId
        /\ inv[i].mfArg # None /\ inv[i].mfArg[1].len > 900
        /\ ledger[inv[i].requestId] # None
        /\ ledger[inv[i].requestId][1].error =
              Some([text |-> inv[i].mfArg[1].text, len |-> 900])
        /\ inv[j].mfArg # None /\ inv[j].mfArg[1].len < 900
        /\ ledger[inv[j].requestId] # None
        /\ ledger[inv[j].requestId][1].error = inv[j].mfArg

=============================================================================
